---------------------------- MODULE Spec2Model ----------------------------
(***************************************************************************)
(* State-machine model of the ModEM mesh/data subsystem of mtpy            *)
(* (src/mtpy/modeling/modem.py): classes Data and Model.                   *)
(*                                                                         *)
(* Objects are records whose fields carry the names of the Python          *)
(* attributes.  Python's None is the empty sequence None == << >> and a    *)
(* set attribute x is Some(x) == << x >>.                                  *)
(*                                                                         *)
(* The operations are batch transformations, so every specification below  *)
(* draws a configuration in its Init and then lets the operations act.     *)
(***************************************************************************)
EXTENDS Integers, Sequences, FiniteSets, TLC

VARIABLES
    pc,          \* name of the last operation that completed or raised
    raised,      \* exception raised by the last operation, "none" otherwise
    data,        \* the Data object being worked on
    data_file,   \* lines of the ModEM data file on disk (<< >>: no file)
    rdata,       \* a fresh Data object used to read the data file back
    model,       \* the Model object being worked on
    model_file,  \* lines of the ModEM model file on disk (<< >>: no file)
    rmodel,      \* a fresh Model object used to read the model file back
    args         \* the arguments the last operation was called with

vars == << pc, raised, data, data_file, rdata, model, model_file, rmodel,
           args >>

-----------------------------------------------------------------------------
(* Generic helpers *)

None == << >>
Some(x) == << x >>
IsNone(o) == o = << >>
Val(o) == o[1]

\* an object that plays no part in the specification at hand
NoObject == [class |-> "unused"]

Abs(x) == IF x < 0 THEN -x ELSE x
Min2(a, b) == IF a <= b THEN a ELSE b
Max2(a, b) == IF a >= b THEN a ELSE b

SetMin(S) == CHOOSE x \in S : \A y \in S : x <= y
SetMax(S) == CHOOSE x \in S : \A y \in S : x >= y

Range(s) == { s[i] : i \in 1..Len(s) }
\* the sequence s with its elements worked out once
Tuple(s) == s \o << >>

RECURSIVE SortedSeq(_)
\* sorted(set(...)): the ascending sequence of the members of a set of integers
SortedSeq(S) ==
    IF S = {} THEN << >>
    ELSE LET m == SetMin(S) IN << m >> \o SortedSeq(S \ {m})

RECURSIVE Pow10(_)
Pow10(k) == IF k <= 0 THEN 1 ELSE 10 * Pow10(k - 1)

RECURSIVE SumSeq(_)
SumSeq(s) == IF s = << >> THEN 0 ELSE Head(s) + SumSeq(Tail(s))

-----------------------------------------------------------------------------
(***************************************************************************)
(* Real numbers on file and in memory.                                     *)
(*                                                                         *)
(* A real is a reduced fraction << n, d >> with d > 0, so that equality of *)
(* reals is equality of tuples.  Python's float formatting is decimal      *)
(* rounding of the exact value; floating-point round-off below the         *)
(* printed precision is not modelled.                                      *)
(***************************************************************************)

RECURSIVE GCD(_, _)
GCD(a, b) == IF b = 0 THEN a ELSE GCD(b, a % b)

\* the reduced fraction n/d (d # 0)
Q(n, d) ==
    LET g == GCD(Abs(n), Abs(d))
        s == IF d < 0 THEN -1 ELSE 1
    IN << (s * n) \div g, (s * d) \div g >>

QInt(n) == << n, 1 >>
QZero == << 0, 1 >>
QIsZero(a) == a[1] = 0
QNeg(a) == << -a[1], a[2] >>
QAbs(a) == << Abs(a[1]), a[2] >>
\* products are reduced crosswise first, which keeps them in TLC's integers
QMul(a, b) ==
    LET g1 == GCD(Abs(a[1]), b[2])
        g2 == GCD(Abs(b[1]), a[2])
    IN IF a[1] = 0 \/ b[1] = 0 THEN QZero
       ELSE << (a[1] \div g1) * (b[1] \div g2), (a[2] \div g2) * (b[2] \div g1) >>
QDiv(a, b) == QMul(a, IF b[1] < 0 THEN << -b[2], -b[1] >> ELSE << b[2], b[1] >>)
QAdd(a, b) == Q(a[1] * b[2] + b[1] * a[2], a[2] * b[2])
QSub(a, b) == QAdd(a, QNeg(b))
QLess(a, b) == a[1] * b[2] < b[1] * a[2]
QLeq(a, b) == a[1] * b[2] <= b[1] * a[2]
QMax(a, b) == IF QLess(a, b) THEN b ELSE a

RECURSIVE QSumRange(_, _, _)
QSumRange(s, lo, hi) ==
    IF lo > hi THEN QZero
    ELSE IF lo = hi THEN s[lo]
    ELSE LET mid == (lo + hi) \div 2
         IN QAdd(QSumRange(s, lo, mid), QSumRange(s, mid + 1, hi))
\* the sum of a sequence of reals
QSum(s) == QSumRange(s, 1, Len(s))

RECURSIVE DecExp(_, _, _)
\* the decimal exponent e of the positive fraction n/d: 10^e <= n/d < 10^(e+1)
DecExp(n, d, e) ==
    IF n >= 10 * d THEN DecExp(n, 10 * d, e + 1)
    ELSE IF n < d THEN DecExp(10 * n, d, e - 1)
    ELSE e

RECURSIVE Digits(_, _, _, _)
\* long division: the integer made of the first k+1 digits of n/d, where
\* 1 <= n/d < 10, and the remainder left after them
Digits(n, d, k, acc) ==
    IF k < 0 THEN << acc, n >>
    ELSE Digits(10 * (n % d), d, k - 1, 10 * acc + (n \div d))

\* the positive fraction n/d scaled into [1, 10): numerator and denominator
Scaled(n, d, e) ==
    IF e >= 0 THEN << n, d * Pow10(e) >> ELSE << n * Pow10(-e), d >>

\* '{:.<prec>e}'.format(x): x rounded to prec+1 significant digits
FmtE(x, prec) ==
    IF x[1] = 0 THEN QZero
    ELSE
      LET n  == Abs(x[1])
          d  == x[2]
          e  == DecExp(n, d, 0)
          sc == Scaled(n, d, e)
          dg == Digits(sc[1], sc[2], prec, 0)
          \* dg[2] is ten times the remainder; an exact tie goes to even
          m  == IF dg[2] > 5 * sc[2]
                   \/ (dg[2] = 5 * sc[2] /\ dg[1] % 2 = 1)
                THEN dg[1] + 1 ELSE dg[1]
          sg == IF x[1] < 0 THEN -1 ELSE 1
      IN IF e >= prec THEN Q(sg * m * Pow10(e - prec), 1)
         ELSE Q(sg * m, Pow10(prec - e))

\* '{:.<prec>f}'.format(x): x rounded to prec decimals
FmtF(x, prec) ==
    LET n  == Abs(x[1]) * Pow10(prec)
        q  == n \div x[2]
        r  == n % x[2]
        \* an exact tie goes to even
        m  == IF 2 * r > x[2] \/ (2 * r = x[2] /\ q % 2 = 1)
              THEN q + 1 ELSE q
        sg == IF x[1] < 0 THEN -1 ELSE 1
    IN Q(sg * m, Pow10(prec))

RECURSIVE ISqrtBetween(_, _, _)
ISqrtBetween(n, lo, hi) ==
    IF lo >= hi THEN lo
    ELSE LET mid == (lo + hi + 1) \div 2
         IN IF mid * mid <= n THEN ISqrtBetween(n, mid, hi)
            ELSE ISqrtBetween(n, lo, mid - 1)

\* the integer square root (exact on the perfect squares the model uses)
ISqrt(n) == ISqrtBetween(n, 0, Min2(n, 46340))

\* complex numbers are pairs << re, im >> of reals
Cx(re, im) == << QInt(re), QInt(im) >>
CZero == << QZero, QZero >>
\* abs(z) of a complex with integer parts
CAbs(z) == ISqrt(z[1][1] * z[1][1] + z[2][1] * z[2][1])

-----------------------------------------------------------------------------
(***************************************************************************)
(* Data.get_period_list                                                    *)
(*                                                                         *)
(* Periods are held by their decimal logarithm, in ticks of 1/12 decade    *)
(* (period = 10^(tick/12)), so that np.log10 and np.logspace are exact     *)
(* integer arithmetic: the raw station periods lie on whole multiples of   *)
(* 12 ticks and max_num_periods - 1 <= 4 divides every span.  Order        *)
(* comparisons between periods are comparisons between ticks.              *)
(***************************************************************************)

MaxRawPeriods == 3    \* raw periods available to a station: 10^0 .. 10^2 s
MaxNumPeriods == 3    \* largest max_num_periods tried

RawPeriodTicks == { 12 * k : k \in 0..(MaxRawPeriods - 1) }

\* np.logspace(pmin, pmax, num): num points evenly spaced in log10
LogSpace(pmin, pmax, num) ==
    IF num <= 0 THEN << >>
    ELSE IF num = 1 THEN << pmin >>
    ELSE [ i \in 1..num |-> pmin + ((i - 1) * (pmax - pmin)) \div (num - 1) ]

\* lines 648-654: the sorted union of 1/freq over all stations of mt_dict
DataPeriodList(mt_dict) ==
    SortedSeq(UNION { mt_dict[s] : s \in DOMAIN mt_dict })

\* np.where(data_period_list >= period_min)[0][0]
MinIndex(dpl, pmin) == SetMin({ i \in 1..Len(dpl) : dpl[i] >= pmin })
\* np.where(data_period_list <= period_max)[0][-1]
MaxIndex(dpl, pmax) == SetMax({ i \in 1..Len(dpl) : dpl[i] <= pmax })

\* lines 656-661: one of period_min / period_max is given without the other
OneBoundMissing(d) ==
    \/ ~IsNone(d.period_min) /\ IsNone(d.period_max)
    \/ ~IsNone(d.period_max) /\ IsNone(d.period_min)

\* lines 679-681 without the raise: an unresolved list is returned silently
UnresolvedCheck_Silent(period_list) == "none"

\* lines 679-681: the closing check, once nothing has set period_list
UnresolvedCheck(period_list) ==
    IF IsNone(period_list) THEN "ModEMError" ELSE "none"

\* Outcome of get_period_list on Data object d: the new object and the
\* exception ("none" when it returns).
PeriodListOutcome(d) ==
    IF IsNone(d.mt_dict) /\ (IsNone(d.edi_list) \/ DOMAIN Val(d.edi_list) = {})
    THEN [obj |-> d, exc |-> "ModEMError"]      \* get_mt_dict, lines 405-411
    ELSE IF ~IsNone(d.period_list)
    THEN [obj |-> d, exc |-> "none"]            \* lines 640-646
    ELSE
      LET mtd == IF IsNone(d.mt_dict) THEN Val(d.edi_list) ELSE Val(d.mt_dict)
          dpl == DataPeriodList(mtd)
          d1  == [d EXCEPT !.mt_dict = Some(mtd),
                           !.data_period_list = Some(dpl)]
      IN
      IF OneBoundMissing(d)
      THEN [obj |-> d1, exc |-> "ModEMError"]   \* lines 658, 661
      ELSE IF ~IsNone(d.period_min) /\ ~IsNone(d.period_max)
      THEN
        IF IsNone(d.max_num_periods)
        THEN [obj |-> d1, exc |-> "ModEMError"] \* line 664
        ELSE IF { i \in 1..Len(dpl) : dpl[i] >= Val(d.period_min) } = {}
                \/ { i \in 1..Len(dpl) : dpl[i] <= Val(d.period_max) } = {}
        THEN [obj |-> d1, exc |-> "IndexError"] \* lines 666-667, empty where
        ELSE
          LET min_index == MinIndex(dpl, Val(d.period_min))
              max_index == MaxIndex(dpl, Val(d.period_max))
              pl == LogSpace(dpl[min_index], dpl[max_index],
                             Val(d.max_num_periods))
          IN [obj |-> [d1 EXCEPT !.period_list = Some(pl)], exc |-> "none"]
      ELSE [obj |-> d1, exc |-> UnresolvedCheck(d1.period_list)]

\* the period configurations a Data object is constructed with
PeriodOption == { None } \cup { Some(p) : p \in { 12 * k - 6 : k \in 0..MaxRawPeriods } }
NumOption == { None } \cup { Some(n) : n \in 0..MaxNumPeriods }
ListOption == { None, Some(<< 0, 12 >>), Some(<< 12 >>) }
StationPeriods == { S \in SUBSET RawPeriodTicks : S # {} }

InitPeriod ==
    /\ pc = "new"
    /\ raised = "none"
    /\ \E pl \in ListOption, pmin \in PeriodOption, pmax \in PeriodOption,
          num \in NumOption, sp \in StationPeriods, loaded \in BOOLEAN,
          edi \in BOOLEAN :
         data = [ class            |-> "Data",
                  edi_list         |-> IF edi \/ loaded
                                         THEN Some([ s \in {"st000"} |-> sp ])
                                         ELSE None,
                  mt_dict          |-> IF loaded
                                         THEN Some([ s \in {"st000"} |-> sp ])
                                         ELSE None,
                  period_list      |-> pl,
                  period_min       |-> pmin,
                  period_max       |-> pmax,
                  max_num_periods  |-> num,
                  data_period_list |-> None ]
    /\ data_file = << >>
    /\ rdata = NoObject
    /\ model = NoObject
    /\ model_file = << >>
    /\ rmodel = NoObject
    /\ args = << >>

GetPeriodList ==
    /\ pc = "new"
    /\ LET out == PeriodListOutcome(data) IN
         /\ data' = out.obj
         /\ raised' = out.exc
    /\ pc' = "get_period_list"
    /\ UNCHANGED << data_file, rdata, model, model_file, rmodel, args >>

NextPeriod == GetPeriodList

SpecPeriod == InitPeriod /\ [][NextPeriod]_vars

\* the three configurations without a resolvable period source
C1_Unresolvable(d) ==
    \/ IsNone(d.period_min) # IsNone(d.period_max)
    \/ ~IsNone(d.period_min) /\ ~IsNone(d.period_max)
         /\ IsNone(d.max_num_periods)
    \/ IsNone(d.period_min) /\ IsNone(d.period_max)

\* C1: with no explicit period_list, get_period_list raises ModEMError when
\* exactly one of period_min/period_max is set, when both are set without
\* max_num_periods, and when neither is set; period_list is still unset
\* afterwards.
C1_PeriodConfigErrors ==
    [][ (pc = "new" /\ pc' = "get_period_list"
         /\ IsNone(data.period_list) /\ C1_Unresolvable(data))
        => (raised' = "ModEMError" /\ IsNone(data'.period_list)) ]_vars

\* get_period_list has raised on a configuration with period_max alone
C1_Witness ==
    /\ pc = "get_period_list"
    /\ raised = "ModEMError"
    /\ IsNone(data.period_list)
    /\ IsNone(data.period_min) /\ ~IsNone(data.period_max)
    /\ ~IsNone(data.data_period_list)

\* C19: whenever get_period_list returns, period_list is set, holds at
\* least one period and is strictly ascending (a period 10^(tick/12) is
\* positive whatever its tick), for an explicit list and for one derived
\* from period_min, period_max and max_num_periods.
C19_PeriodListAscending ==
    (pc = "get_period_list" /\ raised = "none") =>
        /\ ~IsNone(data.period_list)
        /\ Len(Val(data.period_list)) >= 1
        /\ \A i \in 1..(Len(Val(data.period_list)) - 1) :
             Val(data.period_list)[i] < Val(data.period_list)[i + 1]

\* the part of C19 about a derived list whose range brackets two raw
\* periods or more, or of which one period is asked
C19_DerivedAscending ==
    [][(pc = "new" /\ pc' = "get_period_list" /\ raised' = "none"
        /\ IsNone(data.period_list)
        /\ Val(data.max_num_periods) >= 1
        /\ (Val(data.max_num_periods) = 1
            \/ \E p, q \in Range(Val(data'.data_period_list)) :
                 /\ p < q
                 /\ Val(data.period_min) <= p /\ q <= Val(data.period_max)))
       => /\ Len(Val(data'.period_list)) = Val(data.max_num_periods)
          /\ \A i \in 1..(Len(Val(data'.period_list)) - 1) :
               Val(data'.period_list)[i] < Val(data'.period_list)[i + 1]]_vars

-----------------------------------------------------------------------------
(***************************************************************************)
(* Data.write_data_file / Data.read_data_file                              *)
(*                                                                         *)
(* data.data_array is a sequence of station records; z and z_err map a     *)
(* period index to a 2x2 array (a function of << i, j >>), tip and tip_err *)
(* to a 1x2 array.  Periods of the data file are in seconds.               *)
(*                                                                         *)
(* A line of the file is a record [k, tag, v]: k is the character the      *)
(* line starts with ("#", ">" or "" for a data line), tag names which line *)
(* of the layout it is and v holds its fields.  The fixed widths of the    *)
(* data line always leave white space between two fields for the values of *)
(* the model, so a data line is the tuple of its 11 fields.                *)
(***************************************************************************)

MaxStations == 2
MaxPeriods == 2

ZIndex == { << 0, 0 >>, << 0, 1 >>, << 1, 0 >>, << 1, 1 >> }
TIndex == { << 0, 0 >>, << 0, 1 >> }

\* Data.__init__, lines 332-340.  The key for mode 4 is not '4'.
inv_mode_dict ==
    [ k \in { "1", "2", "3",
              "4/g/data/ha3/fxz547/Githubz/mtpy2/examples/data/ModEM_files/VicSynthetic07/Modular_MPI_NLCG_019.rho",
              "5", "6", "7" } |->
        CASE k = "1" -> << "Full_Impedance", "Full_Vertical_Components" >>
          [] k = "2" -> << "Full_Impedance" >>
          [] k = "3" -> << "Off_Diagonal_Impedance", "Full_Vertical_Components" >>
          [] k = "5" -> << "Full_Vertical_Components" >>
          [] k = "6" -> << "Full_Interstation_TF" >>
          [] k = "7" -> << "Off_Diagonal_Rho_Phase" >>
          [] OTHER   -> << "Off_Diagonal_Impedance" >> ]

\* Data.__init__, lines 341-343
inv_comp_dict ==
    [ m \in { "Full_Impedance", "Off_Diagonal_Impedance",
              "Full_Vertical_Components" } |->
        CASE m = "Full_Impedance" -> << "zxx", "zxy", "zyx", "zyy" >>
          [] m = "Off_Diagonal_Impedance" -> << "zxy", "zyx" >>
          [] OTHER -> << "tx", "ty" >> ]

\* Data.__init__, lines 345-346
comp_index_dict ==
    [ c \in { "zxx", "zxy", "zyx", "zyy", "tx", "ty" } |->
        CASE c = "zxx" -> << 0, 0 >>
          [] c = "zxy" -> << 0, 1 >>
          [] c = "zyx" -> << 1, 0 >>
          [] c = "zyy" -> << 1, 1 >>
          [] c = "tx"  -> << 0, 0 >>
          [] OTHER     -> << 0, 1 >> ]

\* comp.upper() and its inverse dd[7].lower()
Upper(c) ==
    CASE c = "zxx" -> "ZXX" [] c = "zxy" -> "ZXY" [] c = "zyx" -> "ZYX"
      [] c = "zyy" -> "ZYY" [] c = "tx" -> "TX" [] OTHER -> "TY"
Lower(c) ==
    CASE c = "ZXX" -> "zxx" [] c = "ZXY" -> "zxy" [] c = "ZYX" -> "zyx"
      [] c = "ZYY" -> "zyy" [] c = "TX" -> "tx" [] OTHER -> "ty"

\* comp.find('z') == 0 selects 'z', comp.find('t') == 0 selects 'tip'
CKey(comp) == IF comp \in { "tx", "ty" } THEN "tip" ELSE "z"

\* inv_mode.find('Impedance') > 0 and inv_mode.find('Vertical') >= 0
FindsImpedance(inv_mode) ==
    inv_mode \in { "Full_Impedance", "Off_Diagonal_Impedance" }
FindsVertical(inv_mode) == inv_mode = "Full_Vertical_Components"

\* the stored value self.data_array[ss][c_key][ff, z_ii, z_jj]
Stored(sta, c_key, ff, idx) ==
    IF c_key = "z" THEN sta.z[ff][idx] ELSE sta.tip[ff][idx]
StoredErr(sta, c_key, ff, idx) ==
    IF c_key = "z" THEN sta.z_err[ff][idx] ELSE sta.tip_err[ff][idx]

\* the no-data marker 1e32 is outside the values the model stores
\* lines 990-991 with 'or' between the two tests for zero
IsWritten_AnyPart(zz) == ~QIsZero(zz[1]) \/ ~QIsZero(zz[2])

\* lines 990-991: the test that lets a component onto the file
IsWritten(zz) == ~QIsZero(zz[1]) /\ ~QIsZero(zz[2])

\* lines 1001-1006, 1018-1023: the real or imaginary part as written
WrittenPart(units, x) ==
    IF units = "ohm" THEN FmtE(QDiv(x, QInt(796)), 6) ELSE FmtE(x, 6)

\* the arithmetic mean of |Zxy| and |Zyx| in place of the geometric one
EgbertError_ArithmeticMean(sta, ff, error_egbert) ==
    Q((CAbs(sta.z[ff][<< 0, 1 >>]) + CAbs(sta.z[ff][<< 1, 0 >>]))
        * error_egbert, 200)

\* np.sqrt(abs(d_zxy * d_zyx)) * self.error_egbert / 100.
EgbertError(sta, ff, error_egbert) ==
    Q(ISqrt(CAbs(sta.z[ff][<< 0, 1 >>]) * CAbs(sta.z[ff][<< 1, 0 >>]))
        * error_egbert, 100)

\* lines 1026-1031: the tipper error when it is computed
TipperError(d, sta, ff, comp) ==
    LET z_ii == comp_index_dict[comp][1] IN
    IF d.error_type \in { "floor", "floor_egbert" }
    THEN QMax(d.error_tipper, sta.tip_err[ff][<< 0, z_ii >>])
    ELSE d.error_tipper

\* lines 1032-1052 with the stored error taken as it is under 'floor'
ImpedanceError_FloorIgnored(d, sta, ff, comp, zz) ==
    LET idx == comp_index_dict[comp] IN
    CASE d.error_type = "floor" -> sta.z_err[ff][idx]
      [] d.error_type = "value" -> Q(CAbs(zz) * d.error_value, 100)
      [] d.error_type = "egbert" -> EgbertError(sta, ff, d.error_egbert)
      [] d.error_type = "floor_egbert" ->
           IF QLess(sta.z_err[ff][idx], EgbertError(sta, ff, d.error_egbert))
           THEN EgbertError(sta, ff, d.error_egbert)
           ELSE sta.z_err[ff][idx]

\* lines 1032-1052: the impedance error when it is computed
ImpedanceError(d, sta, ff, comp, zz) ==
    LET idx   == comp_index_dict[comp]
        modz  == CAbs(zz)
        z_err == sta.z_err[ff][idx]
        egb   == EgbertError(sta, ff, d.error_egbert)
    IN
    CASE d.error_type = "floor" ->
           \* rel_err = z_err / abs(zz), floored at error_floor / 100
           IF QLess(QDiv(z_err, QInt(modz)), Q(d.error_floor, 100))
           THEN Q(d.error_floor * modz, 100)
           ELSE z_err
      [] d.error_type = "value" -> Q(modz * d.error_value, 100)
      [] d.error_type = "egbert" -> egb
      [] d.error_type = "floor_egbert" ->
           IF QLess(z_err, egb) THEN egb ELSE z_err

\* lines 1054-1059 without the replacement
ZeroErrorSentinel_Absent(units, abs_err) == abs_err

\* lines 1054-1059: an error of exactly zero becomes 1e3 (1e3/796 in ohm)
ZeroErrorSentinel(units, abs_err) ==
    IF QIsZero(abs_err)
    THEN IF units = "ohm" THEN Q(1000, 796) ELSE QInt(1000)
    ELSE abs_err

\* lines 1062-1064: the stored error, taken when compute_error is off
StoredError(d, sta, ff, comp) ==
    LET abs_err == StoredErr(sta, CKey(comp), ff, comp_index_dict[comp]) IN
    IF CKey(comp) = "z" /\ d.units = "ohm"
    THEN QDiv(abs_err, QInt(796))
    ELSE abs_err

\* lines 1024-1066: the error field of a data line
ErrorField(d, sta, ff, comp, zz, compute_error) ==
    LET abs_err ==
          IF compute_error
          THEN ZeroErrorSentinel(d.units,
                 IF CKey(comp) = "tip" THEN TipperError(d, sta, ff, comp)
                 ELSE ImpedanceError(d, sta, ff, comp, zz))
          ELSE StoredError(d, sta, ff, comp)
    IN FmtE(QAbs(abs_err), 6)

\* lines 992-1023, 1066-1069: the fields of a data line in file order
\* (period, station, lat, lon, north, east, elevation, component, real,
\* imaginary, error)
DataLine(d, ss, ff, comp, compute_error) ==
    LET sta == d.data_array[ss]
        zz  == Stored(sta, CKey(comp), ff, comp_index_dict[comp])
        wide == d.formatting = "2"
    IN [ k |-> "", tag |-> "data",
         v |-> << FmtE(d.period_list[ff], IF wide THEN 6 ELSE 5),
                  sta.station,
                  FmtF(sta.lat, IF wide THEN 6 ELSE 3),
                  FmtF(sta.lon, IF wide THEN 6 ELSE 3),
                  FmtF(sta.rel_north, 3),
                  FmtF(sta.rel_east, 3),
                  FmtF(sta.elev, 3),
                  Upper(comp),
                  WrittenPart(d.units, zz[1]),
                  WrittenPart(d.units, zz[2]),
                  ErrorField(d, sta, ff, comp, zz, compute_error) >> ]

\* line 956: the periods at which some station has a nonzero impedance
NPer(d) ==
    Cardinality({ ff \in 1..Len(d.period_list) :
        \E ss \in 1..Len(d.data_array), idx \in ZIndex :
            d.data_array[ss].z[ff][idx] # CZero })

\* lines 381-398: _set_header_string
SetHeaderString(d) ==
    LET pct == CASE d.error_type = "egbert" -> d.error_egbert
                 [] d.error_type = "floor" -> d.error_floor
                 [] OTHER -> d.error_value
    IN IF d.error_type \in { "egbert", "floor", "value" }
       THEN [ d.header_strings EXCEPT ![1] =
                [ k |-> "#", tag |-> "created",
                  v |-> << d.error_type, pct, FmtF(d.rotation_angle, 1),
                           "_deg" >> ] ]
       ELSE d.header_strings

\* lines 960-974: the header of one mode block
BlockHeader(d, hdr, inv_mode) ==
    << hdr[1], hdr[2], [ k |-> ">", tag |-> "mode", v |-> inv_mode ] >>
    \o ( IF FindsImpedance(inv_mode)
         THEN << [ k |-> ">", tag |-> "sign", v |-> d.wave_sign_impedance ],
                 [ k |-> ">", tag |-> "units", v |-> d.units ] >>
         ELSE IF FindsVertical(inv_mode)
         THEN << [ k |-> ">", tag |-> "sign", v |-> d.wave_sign_tipper ],
                 [ k |-> ">", tag |-> "units", v |-> "[]" ] >>
         ELSE << >> )
    \o << [ k |-> ">", tag |-> "orient", v |-> "0" ],
          [ k |-> ">", tag |-> "center",
            v |-> << FmtF(Val(d.center_position)[1], 6),
                     FmtF(Val(d.center_position)[2], 6) >> ],
          [ k |-> ">", tag |-> "counts",
            v |-> << NPer(d), Len(d.data_array) >> ] >>

\* lines 976-1070: the data lines of one mode block, stations outermost,
\* then periods, then the components of the mode
BlockData(d, inv_mode, compute_error) ==
    LET comps == inv_comp_dict[inv_mode]
        nc == Len(comps)
        nf == Len(d.period_list)
        all == [ t \in 1..(Len(d.data_array) * nf * nc) |->
                   << ((t - 1) \div (nf * nc)) + 1,
                      (((t - 1) \div nc) % nf) + 1,
                      comps[((t - 1) % nc) + 1] >> ]
        kept == SelectSeq(all, LAMBDA e :
                  IsWritten(Stored(d.data_array[e[1]], CKey(e[3]), e[2],
                                   comp_index_dict[e[3]])))
    IN [ t \in 1..Len(kept) |->
           DataLine(d, kept[t][1], kept[t][2], kept[t][3], compute_error) ]

RECURSIVE Blocks(_, _, _, _)
Blocks(d, hdr, modes, compute_error) ==
    IF modes = << >> THEN << >>
    ELSE BlockHeader(d, hdr, Head(modes))
         \o BlockData(d, Head(modes), compute_error)
         \o Blocks(d, hdr, Tail(modes), compute_error)

\* write_data_file(fill=False, rotation_angle=None, compute_error): the
\* lines written and the exception raised ("none" when the file is written)
WriteDataOutcome(d, compute_error) ==
    LET hdr == SetHeaderString(d) IN
    IF d.inv_mode \notin DOMAIN inv_mode_dict
    THEN [ lines |-> << >>, exc |-> "KeyError" ]         \* line 959
    ELSE IF IsNone(d.center_position)
    THEN [ lines |-> << >>, exc |-> "TypeError" ]        \* lines 971-972
    ELSE IF \E i \in 1..Len(inv_mode_dict[d.inv_mode]) :
              inv_mode_dict[d.inv_mode][i] \notin DOMAIN inv_comp_dict
    THEN [ lines |-> << >>, exc |-> "KeyError" ]         \* line 978
    ELSE [ lines |-> Blocks(d, hdr, inv_mode_dict[d.inv_mode], compute_error),
           exc |-> "none" ]

WriteDataFile ==
    /\ pc \in { "new", "get_relative_station_locations" }
    /\ raised = "none"
    /\ data.class = "Data"
    /\ \E compute_error \in BOOLEAN :
         LET out == WriteDataOutcome(data, compute_error) IN
           /\ data' = [ data EXCEPT !.header_strings = SetHeaderString(data) ]
           /\ args' = [ compute_error |-> compute_error ]
           /\ raised' = out.exc
           /\ data_file' = IF out.exc = "none" THEN out.lines ELSE data_file
    /\ pc' = "write_data_file"
    /\ UNCHANGED << rdata, model, model_file, rmodel >>

\* the text tests of read_data_file on a '>' line, lines 1213-1227
FindsOhm(line) == line.tag = "units" /\ line.v \in { "ohm", "Ohm" }
FindsMv(line) == line.tag = "units" /\ line.v = "[mV/km]/[nT]"
LineFindsVertical(line) == line.tag = "mode" /\ FindsVertical(line.v)
LineFindsImpedance(line) == line.tag = "mode" /\ FindsImpedance(line.v)
FindsExp(line) == line.tag = "sign"

\* lines 1213-1216 with the units copied from the line
ParseUnits_Verbatim(units, line) ==
    IF line.tag = "units" /\ line.v # "[]" THEN line.v ELSE units

\* lines 1213-1216: the units recovered from a '>' line
ParseUnits(units, line) ==
    LET u1 == IF FindsOhm(line) THEN "ohm" ELSE units
    IN IF FindsMv(line) THEN " [mV/km]/[nT]" ELSE u1

\* lines 1208-1247: one line of the file; st is the state of the scan
ParseLine(st, line, linecount) ==
    IF line.k = "#"
    THEN [ st EXCEPT !.header_list = Append(@, line) ]
    ELSE IF line.k = ">"
    THEN
      LET rt == IF LineFindsVertical(line) THEN TRUE
                ELSE IF LineFindsImpedance(line) THEN FALSE
                ELSE st.read_tipper
          ri == IF LineFindsVertical(line) THEN FALSE
                ELSE IF LineFindsImpedance(line) THEN TRUE
                ELSE st.read_impedance
      IN [ st EXCEPT
             !.units = ParseUnits(@, line),
             !.read_tipper = rt,
             !.read_impedance = ri,
             !.center_position =
                 IF linecount = 7 /\ line.tag = "center" THEN Some(line.v)
                 ELSE @,
             !.wave_sign_impedance =
                 IF FindsExp(line) /\ ri THEN line.v ELSE @,
             !.wave_sign_tipper =
                 IF FindsExp(line) /\ ~ri /\ rt THEN line.v ELSE @ ]
    ELSE [ st EXCEPT !.data_list = Append(@, line.v) ]

RECURSIVE ParseLines(_, _, _)
ParseLines(st, dlines, linecount) ==
    IF linecount > Len(dlines) THEN st
    ELSE ParseLines(ParseLine(st, dlines[linecount], linecount), dlines,
                    linecount + 1)

RECURSIVE QSortedSeq(_)
\* sorted(set(...)) of a set of reals
QSortedSeq(S) ==
    IF S = {} THEN << >>
    ELSE LET m == CHOOSE x \in S : \A y \in S : ~QLess(y, x)
         IN << m >> \o QSortedSeq(S \ {m})

\* lines 1249-1258: the rotation angle found in the first header line
ParseRotation(rotation_angle, header) ==
    IF header.tag = "created" /\ header.v[4] = "_deg" THEN header.v[3]
    ELSE rotation_angle

\* lines 1308-1327: the value a data line dd puts into the tensor
ReadValue(st, dd) ==
    LET sign == IF dd[8] \in { "ZXX", "ZXY", "ZYX", "ZYY" }
                THEN st.wave_sign_impedance ELSE st.wave_sign_tipper
        im   == IF sign = "+" THEN dd[10] ELSE QNeg(dd[10])
        zv   == << dd[9], im >>
    IN IF dd[8] \in { "ZXX", "ZXY", "ZYX", "ZYY" } /\ st.units = "ohm"
       THEN << QMul(zv[1], QInt(796)), QMul(zv[2], QInt(796)) >>
       ELSE zv

ReadError(st, dd) ==
    IF dd[8] \in { "ZXX", "ZXY", "ZYX", "ZYY" } /\ st.units = "ohm"
    THEN QMul(dd[11], QInt(796))
    ELSE dd[11]

\* lines 1260-1359: the arrays of one station rebuilt from the data lines
ReadStation(st, station, period_list) ==
    LET mine == SelectSeq(st.data_list, LAMBDA dd : dd[2] = station)
        first == mine[1]
        \* the last line of the station for a period and a component
        hit(ff, comps, idx) ==
            { t \in 1..Len(mine) :
                /\ mine[t][1] = period_list[ff]
                /\ mine[t][8] \in comps
                /\ comp_index_dict[Lower(mine[t][8])] = idx }
        val(ff, comps, idx) ==
            IF hit(ff, comps, idx) = {} THEN CZero
            ELSE ReadValue(st, mine[SetMax(hit(ff, comps, idx))])
        err(ff, comps, idx) ==
            IF hit(ff, comps, idx) = {} THEN QZero
            ELSE ReadError(st, mine[SetMax(hit(ff, comps, idx))])
        zc == { "ZXX", "ZXY", "ZYX", "ZYY" }
        tc == { "TX", "TY" }
        nf == Len(period_list)
    IN [ station   |-> station,
         lat       |-> first[3],
         lon       |-> first[4],
         rel_north |-> first[5],
         rel_east  |-> first[6],
         elev      |-> first[7],
         z         |-> [ ff \in 1..nf |-> [ idx \in ZIndex |-> val(ff, zc, idx) ] ],
         z_err     |-> [ ff \in 1..nf |-> [ idx \in ZIndex |-> err(ff, zc, idx) ] ],
         tip       |-> [ ff \in 1..nf |-> [ idx \in TIndex |-> val(ff, tc, idx) ] ],
         tip_err   |-> [ ff \in 1..nf |-> [ idx \in TIndex |-> err(ff, tc, idx) ] ] ]

\* read_data_file on Data object d: the new object and the exception
ReadDataOutcome(d, dlines) ==
    IF dlines = << >>
    THEN [ obj |-> d, exc |-> "ModEMError" ]             \* lines 1191-1192
    ELSE
      LET st0 == [ units |-> d.units,
                   wave_sign_impedance |-> d.wave_sign_impedance,
                   wave_sign_tipper |-> d.wave_sign_tipper,
                   center_position |-> d.center_position,
                   read_impedance |-> FALSE,
                   read_tipper |-> FALSE,
                   header_list |-> << >>,
                   data_list |-> << >> ]
          st == ParseLines(st0, dlines, 1)
          period_list ==
              QSortedSeq({ st.data_list[t][1] : t \in 1..Len(st.data_list) })
          station_list ==
              SortedSeq({ st.data_list[t][2] : t \in 1..Len(st.data_list) })
      IN [ obj |-> [ d EXCEPT
                       !.units = st.units,
                       !.wave_sign_impedance = st.wave_sign_impedance,
                       !.wave_sign_tipper = st.wave_sign_tipper,
                       !.center_position = st.center_position,
                       !.rotation_angle =
                           ParseRotation(@, st.header_list[1]),
                       !.period_list = period_list,
                       !.data_array =
                           [ ii \in 1..Len(station_list) |->
                               ReadStation(st, station_list[ii], period_list) ] ],
           exc |-> "none" ]

ReadDataFile ==
    /\ pc \in { "new", "write_data_file" }
    /\ rdata.class = "Data"
    /\ LET out == ReadDataOutcome(rdata, data_file) IN
         /\ rdata' = out.obj
         /\ raised' = out.exc
    /\ pc' = "read_data_file"
    /\ UNCHANGED << data, data_file, model, model_file, rmodel, args >>

\* ------------------------------------------------------------------------
\* The Data objects the data-file specifications start from.

\* Data.__init__, lines 280-357, as far as the data file is concerned
FreshData ==
    [ class |-> "Data",
      error_type |-> "egbert", error_floor |-> 5, error_value |-> 5,
      error_egbert |-> 3, error_tipper |-> Q(5, 100),
      wave_sign_impedance |-> "+", wave_sign_tipper |-> "+",
      units |-> "[mV/km]/[nT]", inv_mode |-> "1",
      period_list |-> None, period_buffer |-> None, formatting |-> "1",
      rotation_angle |-> QZero,
      center_position_EN |-> None,
      center_position |-> Some(<< QZero, QZero >>),
      epsg |-> None,
      _utm_grid_size_north |-> QInt(888960),
      _utm_grid_size_east |-> QInt(640000),
      _utm_cross |-> FALSE,
      data_array |-> None,
      header_strings |->
        << [ k |-> "#", tag |-> "created",
             v |-> << "egbert", 5, FmtF(QZero, 1), " deg" >> ],
           [ k |-> "#", tag |-> "columns", v |-> << >> ] >> ]

\* impedance tensors (mV/km/nT) whose moduli are whole numbers
ZKinds == { "full", "diag", "offd", "axis", "none" }
ZCell(kind) ==
    [ idx \in ZIndex |->
        CASE kind = "full" ->
               ( CASE idx = << 0, 0 >> -> Cx(597, 796)
                   [] idx = << 0, 1 >> -> Cx(2388, 3184)
                   [] idx = << 1, 0 >> -> Cx(-597, -796)
                   [] OTHER            -> Cx(-2388, -3184) )
          [] kind = "diag" ->
               ( CASE idx = << 0, 0 >> -> Cx(597, 796)
                   [] idx = << 1, 1 >> -> Cx(2388, 3184)
                   [] OTHER            -> CZero )
          [] kind = "offd" ->
               ( CASE idx = << 0, 1 >> -> Cx(597, 796)
                   [] idx = << 1, 0 >> -> Cx(-2388, -3184)
                   [] OTHER            -> CZero )
          [] kind = "axis" ->
               ( CASE idx = << 0, 0 >> -> Cx(597, 796)
                   [] idx = << 0, 1 >> -> Cx(995, 0)
                   [] idx = << 1, 0 >> -> Cx(0, 995)
                   [] OTHER            -> CZero )
          [] OTHER -> CZero ]

TKinds == { "full", "axis", "none" }
TCell(kind) ==
    [ idx \in TIndex |->
        CASE kind = "full" ->
               IF idx = << 0, 0 >> THEN << Q(199, 250), Q(398, 250) >>
               ELSE << Q(-398, 250), Q(199, 250) >>
          [] kind = "axis" ->
               IF idx = << 0, 0 >> THEN << Q(199, 250), QZero >>
               ELSE << QZero, Q(398, 250) >>
          [] OTHER -> CZero ]

ZErrKinds == { "zero", "small", "big" }
ZErrCell(kind) ==
    [ idx \in ZIndex |->
        CASE kind = "small" -> Q(199, 100)
          [] kind = "big" -> QInt(199)
          [] OTHER -> QZero ]

TErrKinds == { "zero", "big" }
TErrCell(kind) ==
    [ idx \in TIndex |->
        CASE kind = "big" -> IF idx = << 0, 0 >> THEN Q(1, 10) ELSE Q(1, 5)
          [] OTHER -> QZero ]

\* the kinds in a fixed cycle: station k + 1 holds the kind after station k's
NextZKind(kind) ==
    CASE kind = "full" -> "offd" [] kind = "offd" -> "axis"
      [] kind = "axis" -> "diag" [] kind = "diag" -> "none"
      [] OTHER -> "full"

RECURSIVE ZKindOf(_, _)
ZKindOf(kind, ss) == IF ss <= 1 THEN kind ELSE NextZKind(ZKindOf(kind, ss - 1))

\* periods 1 s, 10 s, ...
PeriodSeconds == [ ff \in 1..MaxPeriods |-> QInt(Pow10(ff - 1)) ]

\* station ss ('st00<ss>') of a survey; gap is a period index it has no
\* impedance at (0 for none)
StationRecord(ss, zkind, gap, tkind, zerr, terr) ==
    [ station   |-> ss,
      lat       |-> Q(-481 - 2 * ss, 16),
      lon       |-> Q(1117 + ss, 8),
      rel_north |-> Q(2001 * ss - 3000, 2),
      rel_east  |-> Q(1500 - 1001 * ss, 4),
      elev      |-> QInt(0),
      z         |-> [ ff \in 1..MaxPeriods |->
                        IF ff = gap THEN ZCell("none")
                        ELSE ZCell(ZKindOf(zkind, ss)) ],
      z_err     |-> [ ff \in 1..MaxPeriods |-> ZErrCell(zerr) ],
      tip       |-> [ ff \in 1..MaxPeriods |-> TCell(tkind) ],
      tip_err   |-> [ ff \in 1..MaxPeriods |-> TErrCell(terr) ] ]

Survey(ns, zkind, gap, tkind, zerr, terr) ==
    [ ss \in 1..ns |-> StationRecord(ss, zkind, gap, tkind, zerr, terr) ]

InvModes == { "1", "2", "3", "4", "5", "6", "7" }
Units == { "[V/m]/[T]", "[mV/km]/[nT]", "ohm" }
WaveSigns == { "+", "-" }

\* a Data object with a filled data_array, about to be written, and a fresh
\* Data object to read the file back into
InitDataFile ==
    /\ pc = "new"
    /\ raised = "none"
    /\ \E ns \in 1..MaxStations, zkind \in ZKinds, tkind \in TKinds,
          gap \in 0..1, inv_mode \in InvModes, units \in Units,
          wsi \in WaveSigns, wst \in WaveSigns, fmt \in { "1", "2" } :
         /\ gap = 1 => zkind = "full"
         /\ data = [ FreshData EXCEPT
                       !.data_array = Survey(ns, zkind, gap, tkind, "small", "zero"),
                       !.period_list = PeriodSeconds,
                       !.inv_mode = inv_mode,
                       !.units = units,
                       !.wave_sign_impedance = wsi,
                       !.wave_sign_tipper = wst,
                       !.formatting = fmt,
                       !.center_position =
                           Some(<< Q(-61, 2), Q(557, 4) >>) ]
    /\ data_file = << >>
    /\ rdata = FreshData
    /\ model = NoObject
    /\ model_file = << >>
    /\ rmodel = NoObject
    /\ args = << >>

NextData == WriteDataFile \/ ReadDataFile

SpecDataFile == InitDataFile /\ [][NextData]_vars

\* the error settings tried with each error_type: the percentage the type
\* uses is 0 or 3
ErrorSettings ==
    { [ error_type |-> et, pct |-> pct, error_tipper |-> tip ] :
        et \in { "floor", "value", "egbert", "floor_egbert" },
        pct \in { 0, 3 }, tip \in { QZero, Q(5, 100) } }

\* a Data object with stored errors and one of the error settings
InitDataError ==
    /\ pc = "new"
    /\ raised = "none"
    /\ \E ns \in 1..MaxStations, zkind \in ZKinds \ { "none" },
          zerr \in ZErrKinds, terr \in TErrKinds, units \in Units,
          es \in ErrorSettings :
         data = [ FreshData EXCEPT
                    !.data_array = Survey(ns, zkind, 0, "full", zerr, terr),
                    !.period_list = PeriodSeconds,
                    !.units = units,
                    !.error_type = es.error_type,
                    !.error_floor = IF es.error_type = "floor" THEN es.pct ELSE @,
                    !.error_value = IF es.error_type = "value" THEN es.pct ELSE @,
                    !.error_egbert = IF es.error_type \in { "egbert", "floor_egbert" }
                                     THEN es.pct ELSE @,
                    !.error_tipper = es.error_tipper ]
    /\ data_file = << >>
    /\ rdata = FreshData
    /\ model = NoObject
    /\ model_file = << >>
    /\ rmodel = NoObject
    /\ args = << >>

SpecDataError == InitDataError /\ [][NextData]_vars

\* ------------------------------------------------------------------------
\* Claims about the data file.

\* the (array, index) pairs that belong to the inversion mode of d
ModeEntries(d) ==
    UNION { { << CKey(inv_comp_dict[m][c]), comp_index_dict[inv_comp_dict[m][c]] >> :
                c \in 1..Len(inv_comp_dict[m]) } :
            m \in Range(inv_mode_dict[d.inv_mode]) \cap DOMAIN inv_comp_dict }

AllEntries == ({ "z" } \X ZIndex) \cup ({ "tip" } \X TIndex)

\* the value read back for a station name, a period and an entry; zero when
\* the station or the period is not in the object read
ReadBack(station, per, c_key, idx) ==
    LET S == { i \in 1..Len(rdata.data_array) :
                 rdata.data_array[i].station = station }
        P == { f \in 1..Len(rdata.period_list) : rdata.period_list[f] = per }
    IN IF S = {} \/ P = {} THEN CZero
       ELSE Stored(rdata.data_array[CHOOSE i \in S : TRUE], c_key,
                   CHOOSE f \in P : TRUE, idx)

\* C2: after write_data_file and read_data_file, every nonzero entry of the
\* written data_array that belongs to the inversion mode is read back with
\* the same complex value, and every other entry is read back as zero, for
\* every data_array, mode and wave sign.
C2_DataRoundTrip ==
    (pc = "read_data_file" /\ raised = "none") =>
        \A ss \in 1..Len(data.data_array), ff \in 1..Len(data.period_list),
           e \in AllEntries :
            LET w == Stored(data.data_array[ss], e[1], ff, e[2])
                r == ReadBack(data.data_array[ss].station,
                              data.period_list[ff], e[1], e[2])
            IN IF w # CZero /\ e \in ModeEntries(data) THEN r = w
               ELSE r = CZero

\* C10: after write_data_file and read_data_file on a fresh Data, units and
\* both wave signs of the object read equal those of the object written.
C10_UnitsAndSignsRoundTrip ==
    (pc = "read_data_file" /\ raised = "none") =>
        /\ rdata.units = data.units
        /\ rdata.wave_sign_impedance = data.wave_sign_impedance
        /\ rdata.wave_sign_tipper = data.wave_sign_tipper

\* the data lines of the file written, and the station and period of a line
ImpedanceLines ==
    { t \in 1..Len(data_file) :
        data_file[t].tag = "data"
        /\ data_file[t].v[8] \in { "ZXX", "ZXY", "ZYX", "ZYY" } }
DataLines == { t \in 1..Len(data_file) : data_file[t].tag = "data" }
LineStation(t) ==
    data.data_array[CHOOSE ss \in 1..Len(data.data_array) :
                      data.data_array[ss].station = data_file[t].v[2]]
LinePeriod(t) ==
    CHOOSE ff \in 1..Len(data.period_list) :
        FmtE(data.period_list[ff], IF data.formatting = "2" THEN 6 ELSE 5)
          = data_file[t].v[1]

\* error_egbert / 100 x sqrt(|Zxy * Zyx|) of the station and period of line t
C7_Formula(t) ==
    LET sta == LineStation(t)
        ff  == LinePeriod(t)
    IN Q(data.error_egbert
           * ISqrt(CAbs(sta.z[ff][<< 0, 1 >>]) * CAbs(sta.z[ff][<< 1, 0 >>])),
         100)

C7_Sentinel == IF data.units = "ohm" THEN Q(1000, 796) ELSE QInt(1000)

\* C7 as claimed: with error_type 'egbert' and compute_error on, every
\* impedance line written carries error_egbert/100 x sqrt(|Zxy * Zyx|) of its
\* station and period.
C7_EgbertOnEveryLine ==
    (pc = "write_data_file" /\ raised = "none" /\ args.compute_error
     /\ data.error_type = "egbert") =>
        \A t \in ImpedanceLines : data_file[t].v[11] = FmtE(C7_Formula(t), 6)

\* C7 as amended: with error_type 'egbert' and compute_error on, every
\* impedance line written carries error_egbert/100 x sqrt(|Zxy * Zyx|) of its
\* station and period when that number is not zero, whatever the component
\* and the stored z_err, and 1000 (1000/796 in ohm) when it is zero.
C7_EgbertOrSentinel ==
    (pc = "write_data_file" /\ raised = "none" /\ args.compute_error
     /\ data.error_type = "egbert") =>
        \A t \in ImpedanceLines :
            data_file[t].v[11] =
                IF QIsZero(C7_Formula(t)) THEN FmtE(C7_Sentinel, 6)
                ELSE FmtE(C7_Formula(t), 6)

\* an egbert error of 3% of sqrt(995 x 3980) = 59.7 on the line of a
\* diagonal component whose stored z_err is 199
C7_Witness ==
    /\ pc = "write_data_file" /\ raised = "none" /\ args.compute_error
    /\ data.error_type = "egbert"
    /\ \E t \in ImpedanceLines :
         /\ data_file[t].v[8] = "ZXX"
         /\ data_file[t].v[11] = Q(597, 10)
         /\ LineStation(t).z_err[LinePeriod(t)][<< 0, 0 >>] = QInt(199)

\* C8 as claimed: whatever the error_type and compute_error, no data line
\* written has an error field of zero.
C8_ErrorNeverZero ==
    (pc = "write_data_file" /\ raised = "none") =>
        \A t \in DataLines : ~QIsZero(data_file[t].v[11])

\* the error computed for line t before the replacement of a zero
C8_Computed(t) ==
    LET comp == Lower(data_file[t].v[8])
        sta  == LineStation(t)
        ff   == LinePeriod(t)
    IN IF CKey(comp) = "tip" THEN TipperError(data, sta, ff, comp)
       ELSE ImpedanceError(data, sta, ff, comp,
                           sta.z[ff][comp_index_dict[comp]])

\* C8 as amended: when compute_error is on, no data line written has an
\* error field of zero: a computed error of exactly 0 is written as 1000
\* (1000/796 in ohm), for impedance and tipper components and for each of
\* the error types floor, value, egbert and floor_egbert.
C8_ComputedErrorNeverZero ==
    (pc = "write_data_file" /\ raised = "none" /\ args.compute_error) =>
        \A t \in DataLines :
            /\ ~QIsZero(data_file[t].v[11])
            /\ QIsZero(C8_Computed(t)) =>
                 data_file[t].v[11] =
                     FmtE(IF data.units = "ohm" THEN Q(1000, 796)
                          ELSE QInt(1000), 6)

\* a tipper line and an impedance line that carry the replacement in ohm
C8_Witness ==
    /\ pc = "write_data_file" /\ raised = "none" /\ args.compute_error
    /\ data.units = "ohm"
    /\ \E t, u \in DataLines :
         /\ data_file[t].v[8] = "TX" /\ data_file[u].v[8] = "ZYY"
         /\ QIsZero(C8_Computed(t)) /\ QIsZero(C8_Computed(u))
         /\ data_file[t].v[11] = FmtE(Q(1000, 796), 6)
         /\ data_file[u].v[11] = FmtE(Q(1000, 796), 6)

\* the mode names the class docstring gives for each inv_mode
C12_Documented ==
    [ k \in InvModes |->
        CASE k = "1" -> << "Full_Impedance", "Full_Vertical_Components" >>
          [] k = "2" -> << "Full_Impedance" >>
          [] k = "3" -> << "Off_Diagonal_Impedance", "Full_Vertical_Components" >>
          [] k = "4" -> << "Off_Diagonal_Impedance" >>
          [] k = "5" -> << "Full_Vertical_Components" >>
          [] k = "6" -> << "Full_Interstation_TF" >>
          [] OTHER   -> << "Off_Diagonal_Rho_Phase" >> ]

\* the components a block of the named mode may hold
C12_Components(mode) ==
    CASE mode = "Full_Impedance" -> { "ZXX", "ZXY", "ZYX", "ZYY" }
      [] mode = "Off_Diagonal_Impedance" -> { "ZXY", "ZYX" }
      [] mode = "Full_Vertical_Components" -> { "TX", "TY" }
      [] OTHER -> { }

ModeLines == { t \in 1..Len(data_file) : data_file[t].tag = "mode" }
\* the mode names of the blocks of the file, in order
BlockModes ==
    LET lines == SelectSeq(data_file, LAMBDA l : l.tag = "mode")
    IN [ b \in 1..Len(lines) |-> lines[b].v ]

\* C12: for each inv_mode '1' to '7' write_data_file completes and the file
\* holds one block for each mode name documented for the inv_mode, in the
\* documented order, each block holding only components of its mode.
C12_BlocksAsDocumented ==
    pc = "write_data_file" =>
        /\ raised = "none"
        /\ BlockModes = C12_Documented[data.inv_mode]
        /\ \A t \in DataLines :
             \E b \in ModeLines :
               /\ b < t
               /\ \A u \in ModeLines : u < t => u <= b
               /\ data_file[t].v[8] \in C12_Components(data_file[b].v)

\* the error that belongs to line t in the units of data_array: the stored
\* one, or with compute_error the one computed (zero replaced by 1000)
C14_MemoryError(t) ==
    LET comp == Lower(data_file[t].v[8])
        sta  == LineStation(t)
        ff   == LinePeriod(t)
    IN IF args.compute_error
       THEN ZeroErrorSentinel("[mV/km]/[nT]",
                ImpedanceError(data, sta, ff, comp,
                               sta.z[ff][comp_index_dict[comp]]))
       ELSE sta.z_err[ff][comp_index_dict[comp]]

\* the stored complex value that line t was written from
C14_MemoryValue(t) ==
    LET comp == Lower(data_file[t].v[8]) IN
    Stored(LineStation(t), CKey(comp), LinePeriod(t), comp_index_dict[comp])

\* C14: when units is 'ohm', every impedance line written has real part,
\* imaginary part and error each equal to the value held in memory divided
\* by 796, with compute_error on and off, and every tipper line has its
\* real and imaginary part written undivided.
C14_OhmDividesImpedanceOnly ==
    (pc = "write_data_file" /\ raised = "none" /\ data.units = "ohm") =>
        \A t \in DataLines :
            IF t \in ImpedanceLines
            THEN /\ data_file[t].v[9] =
                      FmtE(QDiv(C14_MemoryValue(t)[1], QInt(796)), 6)
                 /\ data_file[t].v[10] =
                      FmtE(QDiv(C14_MemoryValue(t)[2], QInt(796)), 6)
                 /\ data_file[t].v[11] =
                      FmtE(QAbs(QDiv(C14_MemoryError(t), QInt(796))), 6)
            ELSE /\ data_file[t].v[9] = FmtE(C14_MemoryValue(t)[1], 6)
                 /\ data_file[t].v[10] = FmtE(C14_MemoryValue(t)[2], 6)

\* the part of C14 about impedance lines when compute_error is off
C14_StoredImpedanceDivided ==
    (pc = "write_data_file" /\ raised = "none" /\ data.units = "ohm"
     /\ ~args.compute_error) =>
        \A t \in ImpedanceLines :
            /\ data_file[t].v[9] =
                 FmtE(QDiv(C14_MemoryValue(t)[1], QInt(796)), 6)
            /\ data_file[t].v[10] =
                 FmtE(QDiv(C14_MemoryValue(t)[2], QInt(796)), 6)
            /\ data_file[t].v[11] =
                 FmtE(QAbs(QDiv(C14_MemoryError(t), QInt(796))), 6)

\* max(stored z_err / |Z|, error_floor / 100) x |Z| for the component of
\* line t
C22_Floored(t) ==
    LET comp == Lower(data_file[t].v[8])
        sta  == LineStation(t)
        ff   == LinePeriod(t)
        idx  == comp_index_dict[comp]
        modz == QInt(CAbs(sta.z[ff][idx]))
    IN QMul(QMax(QDiv(sta.z_err[ff][idx], modz), Q(data.error_floor, 100)),
            modz)

\* C22 as stated: with error_type 'floor' and compute_error on, the error
\* of every impedance line is max(stored z_err / |Z|, error_floor / 100)
\* x |Z| of its component.
C22_FlooredOnEveryLine ==
    (pc = "write_data_file" /\ raised = "none" /\ args.compute_error
     /\ data.error_type = "floor") =>
        \A t \in ImpedanceLines : data_file[t].v[11] = FmtE(C22_Floored(t), 6)

\* C22 as amended: with error_type 'floor' and compute_error on, the error
\* of every impedance line is max(stored z_err / |Z|, error_floor / 100)
\* x |Z| of its component, in the units of data_array, so never below
\* error_floor percent of |Z| and never below the stored error; where that
\* is exactly zero (error_floor 0 and a stored error of 0) the line carries
\* 1000, or 1000/796 in ohm.
C22_FlooredOrSentinel ==
    (pc = "write_data_file" /\ raised = "none" /\ args.compute_error
     /\ data.error_type = "floor") =>
        \A t \in ImpedanceLines :
            LET sta == LineStation(t)
                idx == comp_index_dict[Lower(data_file[t].v[8])]
                zz  == sta.z[LinePeriod(t)][idx]
            IN IF QIsZero(C22_Floored(t))
               THEN data_file[t].v[11] =
                      FmtE(IF data.units = "ohm" THEN Q(1000, 796)
                           ELSE QInt(1000), 6)
               ELSE /\ data_file[t].v[11] = FmtE(C22_Floored(t), 6)
                    /\ QLeq(FmtE(Q(data.error_floor * CAbs(zz), 100), 6),
                            data_file[t].v[11])
                    /\ QLeq(FmtE(sta.z_err[LinePeriod(t)][idx], 6),
                            data_file[t].v[11])

\* a file in ohm with a line raised to the floor of 3 percent of |Z|
C22_Witness ==
    /\ pc = "write_data_file" /\ raised = "none" /\ args.compute_error
    /\ data.error_type = "floor" /\ data.error_floor = 3
    /\ data.units = "ohm"
    /\ \E t \in ImpedanceLines :
         LET sta == LineStation(t)
             idx == comp_index_dict[Lower(data_file[t].v[8])]
         IN /\ ~QIsZero(sta.z_err[LinePeriod(t)][idx])
            /\ QLess(sta.z_err[LinePeriod(t)][idx], C22_Floored(t))
            /\ data_file[t].v[11] = FmtE(C22_Floored(t), 6)

\* the tipper error C23 gives for line t: max(error_tipper, the stored
\* tip_err of the line's own component) in a floor mode, else error_tipper
C23_OwnComponent(t) ==
    LET comp == Lower(data_file[t].v[8])
        own  == LineStation(t).tip_err[LinePeriod(t)][comp_index_dict[comp]]
    IN IF data.error_type \in { "floor", "floor_egbert" }
       THEN QMax(data.error_tipper, own)
       ELSE data.error_tipper

\* C23: with compute_error on, the error of every tipper line (tx and ty
\* each) is max(error_tipper, the stored tip_err of its own component) when
\* error_type is a floor mode, and error_tipper for every other error_type.
C23_TipperErrorOfOwnComponent ==
    (pc = "write_data_file" /\ raised = "none" /\ args.compute_error) =>
        \A t \in DataLines \ ImpedanceLines :
            data_file[t].v[11] = FmtE(C23_OwnComponent(t), 6)

\* the same for the lines whose claimed error is not zero and whose
\* component is tx
C23_TxErrorOfOwnComponent ==
    (pc = "write_data_file" /\ raised = "none" /\ args.compute_error) =>
        \A t \in DataLines \ ImpedanceLines :
            (data_file[t].v[8] = "TX" /\ ~QIsZero(C23_OwnComponent(t))) =>
                data_file[t].v[11] = FmtE(C23_OwnComponent(t), 6)

\* the lines of the block headed by mode line b that belong to station ss,
\* period ff and component comp
C24_LinesOf(b, ss, ff, comp) ==
    { t \in DataLines :
        /\ b < t
        /\ \A u \in ModeLines : u < t => u <= b
        /\ data_file[t].v[2] = data.data_array[ss].station
        /\ data_file[t].v[1] =
             FmtE(data.period_list[ff], IF data.formatting = "2" THEN 6 ELSE 5)
        /\ data_file[t].v[8] = Upper(comp) }

\* C24: in every mode block of the file written there is exactly one data
\* line for each station, period and component of the mode whose stored
\* value is not zero, a value with a real part alone or an imaginary part
\* alone among them, and no line for a stored value of zero.
C24_OneLinePerNonzeroValue ==
    (pc = "write_data_file" /\ raised = "none") =>
        \A b \in ModeLines :
        \A ss \in 1..Len(data.data_array), ff \in 1..Len(data.period_list) :
        \A c \in 1..Len(inv_comp_dict[data_file[b].v]) :
            LET comp == inv_comp_dict[data_file[b].v][c]
                zz == Stored(data.data_array[ss], CKey(comp), ff,
                             comp_index_dict[comp])
            IN Cardinality(C24_LinesOf(b, ss, ff, comp))
                 = IF zz # CZero THEN 1 ELSE 0

\* what write_data_file does: a line for the values of which neither part
\* is zero
C24_OneLinePerTwoPartValue ==
    (pc = "write_data_file" /\ raised = "none") =>
        \A b \in ModeLines :
        \A ss \in 1..Len(data.data_array), ff \in 1..Len(data.period_list) :
        \A c \in 1..Len(inv_comp_dict[data_file[b].v]) :
            LET comp == inv_comp_dict[data_file[b].v][c]
                zz == Stored(data.data_array[ss], CKey(comp), ff,
                             comp_index_dict[comp])
            IN Cardinality(C24_LinesOf(b, ss, ff, comp))
                 = IF ~QIsZero(zz[1]) /\ ~QIsZero(zz[2]) THEN 1 ELSE 0

\* the data lines of the block of mode line b
C28_BlockLines(b) ==
    { t \in DataLines : b < t /\ \A u \in ModeLines : u < t => u <= b }

\* the counts line of the block of mode line b
C28_Counts(b) ==
    LET t == SetMin({ u \in 1..Len(data_file) :
                        b < u /\ data_file[u].tag = "counts" })
    IN data_file[t].v

\* C28: in every mode block of the file written, the period count and the
\* station count of the last header line are the number of distinct periods
\* and of distinct stations with a data line in the block, a
\* Full_Vertical_Components block and data with tipper and no impedance
\* included.
C28_CountsMatchLines ==
    (pc = "write_data_file" /\ raised = "none") =>
        \A b \in ModeLines :
            /\ C28_Counts(b)[1] =
                 Cardinality({ data_file[t].v[1] : t \in C28_BlockLines(b) })
            /\ C28_Counts(b)[2] =
                 Cardinality({ data_file[t].v[2] : t \in C28_BlockLines(b) })

\* what write_data_file writes in every block: the number of periods at
\* which some station has an impedance, and the number of rows of data_array
C28_CountsOfImpedanceAndRows ==
    (pc = "write_data_file" /\ raised = "none") =>
        \A b \in ModeLines :
            C28_Counts(b) = << NPer(data), Len(data.data_array) >>

-----------------------------------------------------------------------------
(***************************************************************************)
(* The model file: Model.write_model_file and Model.read_model_file.       *)
(*                                                                         *)
(* res_model is a function on the triples << north, east, z >> of cell     *)
(* indices, counted from 1 where Python counts from 0.  Resistivities are  *)
(* whole powers of ten, 10^0 .. 10^MaxDecade Ohm-m.  A line of the file is *)
(* the sequence of its tokens; the title and the size line are records.    *)
(***************************************************************************)

MaxNorth == 3
MaxEast == 2
MaxZ == 2
MaxDecade == 3

\* Model.__init__, lines 1716-1791
FreshModel ==
    [ class |-> "Model",
      cell_size_east |-> QInt(500), cell_size_north |-> QInt(500),
      pad_east |-> 7, pad_north |-> 7, pad_z |-> 4,
      pad_stretch_h |-> Q(12, 10), pad_stretch_v |-> Q(12, 10),
      z1_layer |-> QInt(10), z_target_depth |-> QInt(50000),
      z_bottom |-> QInt(300000),
      n_layers |-> 30, n_airlayers |-> 0, sea_level |-> QZero,
      mesh_rotation_angle |-> Some(QZero),
      station_locations |-> None,
      nodes_east |-> None, nodes_north |-> None, nodes_z |-> None,
      grid_east |-> None, grid_north |-> None, grid_z |-> None,
      res_model |-> None, covariance_mask |-> None, surface_dict |-> None,
      grid_center |-> None, rotation_angle |-> None,
      title |-> "Model File written by MTpy.modeling.modem",
      res_scale |-> "loge" ]

\* the decade k of the resistivity 10^k
RECURSIVE Log10Int(_)
Log10Int(n) == IF n < 10 THEN 0 ELSE 1 + Log10Int(n \div 10)

\* np.log10 of a whole power of ten
NpLog10(v) == QInt(Log10Int(v[1]))
\* np.log of a whole power of ten: k x ln(10), to seven significant digits
NpLog(v) == Q(Log10Int(v[1]) * 2302585, 1000000)

\* 10 ** x for x a whole number read from the file
TenToThe(x) == QInt(Pow10(x[1]))
\* np.e ** x for x the six-digit text of k x ln(10) read from the file:
\* 10^k to within the printed precision, which the model takes for 10^k
EToThe(x) ==
    QInt(Pow10(CHOOSE k \in 0..MaxDecade :
                 FmtE(Q(k * 2302585, 1000000), 5) = x))

\* res_scale.upper() and log_yn.lower()
ScaleUpper(sc) ==
    CASE sc = "loge" -> "LOGE" [] sc = "log" -> "LOG"
      [] sc = "log10" -> "LOG10" [] OTHER -> "LINEAR"
ScaleLower(sc) ==
    CASE sc = "LOGE" -> "loge" [] sc = "LOG" -> "log"
      [] sc = "LOG10" -> "log10" [] OTHER -> "linear"

\* lines 2633-2640: the value written for a resistivity
WriteRes(res_scale, v) ==
    CASE res_scale = "loge" -> FmtE(NpLog(v), 5)
      [] res_scale \in { "log", "log10" } -> FmtE(NpLog10(v), 5)
      [] OTHER -> FmtE(v, 5)

\* lines 2590-2602: the resistivity array that is written; a model without
\* one gets 100 Ohm-m everywhere
ResModelToWrite(m) ==
    IF IsNone(m.res_model)
    THEN [ c \in (1..Len(m.nodes_north)) \X (1..Len(m.nodes_east))
                 \X (1..Len(m.nodes_z)) |-> QInt(100) ]
    ELSE m.res_model

\* lines 2650-2655: the grid centre that is written
GridCenterToWrite(m) ==
    IF IsNone(m.grid_center)
    THEN << QDiv(QNeg(QSum([ i \in 1..Len(m.nodes_north) |-> QAbs(m.nodes_north[i]) ])), QInt(2)),
            QDiv(QNeg(QSum([ i \in 1..Len(m.nodes_east) |-> QAbs(m.nodes_east[i]) ])), QInt(2)),
            QZero >>
    ELSE Val(m.grid_center)

\* lines 2642-2648: the lines of layer zz, a blank line first, then one
\* line per east index holding the values from north to south
LayerLines(m, res, zz) ==
    LET n_north == Len(m.nodes_north) IN
    << << >> >> \o
    [ ee \in 1..Len(m.nodes_east) |->
        [ nn \in 1..n_north |->
            \* write_res_model[nn] is res_model[::-1][nn]
            WriteRes(m.res_scale, res[<< n_north + 1 - nn, ee, zz >>]) ] ]

RECURSIVE AllLayerLines(_, _, _)
AllLayerLines(m, res, zz) ==
    IF zz > Len(m.nodes_z) THEN << >>
    ELSE LayerLines(m, res, zz) \o AllLayerLines(m, res, zz + 1)

\* line 2608: '# {0}'.format(self.title.upper())
TitleLine(title) ==
    IF title = "Model File written by MTpy.modeling.modem"
    THEN "# MODEL FILE WRITTEN BY MTPY.MODELING.MODEM"
    ELSE title

\* lines 2607-2664: the lines of the model file
ModelFileLines(m) ==
    LET res == ResModelToWrite(m)
        gc  == GridCenterToWrite(m)
        fmt(nodes) == [ i \in 1..Len(nodes) |-> FmtF(QAbs(nodes[i]), 3) ]
    IN << [ title |-> TitleLine(m.title) ],
          [ nsize |-> << Len(m.nodes_north), Len(m.nodes_east),
                         Len(m.nodes_z), 0, ScaleUpper(m.res_scale) >> ],
          fmt(m.nodes_north), fmt(m.nodes_east), fmt(m.nodes_z) >>
       \o AllLayerLines(m, res, 1)
       \o << << >>,
             << FmtF(gc[1], 3), FmtF(gc[2], 3), FmtF(gc[3], 3) >>,
             << IF IsNone(m.mesh_rotation_angle) THEN FmtF(QZero, 3)
                ELSE FmtF(Val(m.mesh_rotation_angle), 3) >> >>

WriteModelFile ==
    /\ pc = "new"
    /\ model.class = "Model"
    /\ model_file' = ModelFileLines(model)
    /\ model' = [ model EXCEPT
                    !.res_model = ResModelToWrite(model),
                    !.covariance_mask =
                        IF IsNone(@)
                        THEN [ c \in DOMAIN ResModelToWrite(model) |-> 1 ]
                        ELSE @,
                    !.grid_center = Some(GridCenterToWrite(model)) ]
    /\ raised' = "none"
    /\ args' = << >>
    /\ pc' = "write_model_file"
    /\ UNCHANGED << data, data_file, rdata, rmodel >>

\* lines 2760-2762 with the test for a three-token line left out: only a
\* blank line ends a layer
EndsLastLayer_Never(iline, count_z, n_z) == FALSE

\* lines 2760-2762: a line of three tokens met while the last layer is read
\* is taken for the end of the layers
EndsLastLayer(iline, count_z, n_z) == Len(iline) = 3 /\ count_z = n_z - 1

RECURSIVE ReadLayers(_, _, _, _, _, _)
\* lines 2750-2777: the while loop; line_index, count_z and count_e count
\* from 0 as in the code, st.res is the array filled so far
ReadLayers(ilines, n_north, n_z, line_index, count_z, st) ==
    IF ~(count_z < n_z)
    THEN [ res |-> st.res, line_index |-> line_index, exc |-> "none" ]
    ELSE IF line_index + 1 > Len(ilines)
    THEN [ res |-> st.res, line_index |-> line_index, exc |-> "IndexError" ]
    ELSE
      LET iline == ilines[line_index + 1] IN
      IF Len(iline) = 0 \/ EndsLastLayer(iline, count_z, n_z)
      THEN ReadLayers(ilines, n_north, n_z, line_index + 1, count_z + 1,
                      [ st EXCEPT !.count_e = 0 ])
      ELSE IF Len(iline) # n_north
              \/ << 1, st.count_e + 1, count_z + 1 >> \notin DOMAIN st.res
      THEN [ res |-> st.res, line_index |-> line_index,
             exc |-> IF Len(iline) # n_north THEN "ValueError"
                     ELSE "IndexError" ]
      ELSE ReadLayers(ilines, n_north, n_z, line_index + 1, count_z,
                      [ res |-> [ c \in DOMAIN st.res |->
                                    IF c[2] = st.count_e + 1 /\ c[3] = count_z + 1
                                    \* north_line[::-1]
                                    THEN iline[n_north + 1 - c[1]]
                                    ELSE st.res[c] ],
                        count_e |-> st.count_e + 1 ])

RECURSIVE ReadTrailer(_, _, _)
\* lines 2779-2790: the lines after the layers
ReadTrailer(ilines, i, m) ==
    IF i > Len(ilines) THEN m
    ELSE ReadTrailer(ilines, i + 1,
           IF Len(ilines[i]) = 3
           THEN [ m EXCEPT !.grid_center = Some(ilines[i]) ]
           ELSE IF Len(ilines[i]) = 1
           THEN [ m EXCEPT !.rotation_angle = Some(ilines[i][1]) ]
           ELSE m)

\* lines 2792-2796: the resistivity in linear Ohm-m
LinearRes(log_yn, x) ==
    CASE ScaleLower(log_yn) = "loge" -> EToThe(x)
      [] ScaleLower(log_yn) \in { "log", "log10" } -> TenToThe(x)
      [] OTHER -> x

\* lines 2798-2809: node positions from the widths, moved by the centre
GridOf(nodes, n, shift) ==
    [ ii \in 1..(n + 1) |-> QAdd(QSum(SubSeq(nodes, 1, ii - 1)), shift) ]

\* read_model_file on Model object m: the new object and the exception
ReadModelOutcome(m, ilines) ==
    IF ilines = << >>
    \* line 2721 compares os.path.isfile(...) with None, which it never is,
    \* and file() at line 2726 raises
    THEN [ obj |-> m, exc |-> "IOError" ]
    ELSE
      LET nsize   == ilines[2].nsize
          n_north == nsize[1]
          n_east  == nsize[2]
          n_z     == nsize[3]
          zeros   == [ c \in (1..n_north) \X (1..n_east) \X (1..n_z) |-> QZero ]
          lay     == ReadLayers(ilines, n_north, n_z, 6, 0,
                                [ res |-> zeros, count_e |-> 0 ])
          m1 == [ m EXCEPT !.title = ilines[1].title,
                           !.nodes_north = ilines[3],
                           !.nodes_east = ilines[4],
                           !.nodes_z = ilines[5],
                           !.res_model = lay.res ]
          m2 == ReadTrailer(ilines, lay.line_index + 1, m1)
          gc == IF IsNone(m2.grid_center) THEN << QZero, QZero, QZero >>
                ELSE Val(m2.grid_center)
      IN IF lay.exc # "none" THEN [ obj |-> m1, exc |-> lay.exc ]
         ELSE [ obj |-> [ m2 EXCEPT
                            !.res_model = [ c \in DOMAIN lay.res |->
                                              LinearRes(nsize[5], lay.res[c]) ],
                            !.grid_north = GridOf(m2.nodes_north, n_north, gc[1]),
                            !.grid_east = GridOf(m2.nodes_east, n_east, gc[2]),
                            !.grid_z = GridOf(m2.nodes_z, n_z, gc[3]) ],
                exc |-> "none" ]

ReadModelFile ==
    /\ pc \in { "new", "write_model_file" }
    /\ rmodel.class = "Model"
    /\ LET out == ReadModelOutcome(rmodel, model_file) IN
         /\ rmodel' = out.obj
         /\ raised' = out.exc
    /\ pc' = "read_model_file"
    /\ UNCHANGED << data, data_file, rdata, model, model_file, args >>

\* the resistivity patterns of the models written
ResPatterns == { "north", "east", "depth", "mixed" }
ResPattern(pat, c) ==
    QInt(Pow10(CASE pat = "north" -> c[1] % (MaxDecade + 1)
                 [] pat = "east"  -> c[2] % (MaxDecade + 1)
                 [] pat = "depth" -> c[3] % (MaxDecade + 1)
                 [] OTHER -> (c[1] + 2 * c[2] + 3 * c[3]) % (MaxDecade + 1)))

\* a Model object with nodes and resistivities, about to be written, and a
\* fresh Model object to read the file back into
InitModelFile ==
    /\ pc = "new"
    /\ raised = "none"
    /\ \E n_north \in 1..MaxNorth, n_east \in 1..MaxEast, n_z \in 1..MaxZ,
          pat \in ResPatterns \cup { "None" },
          res_scale \in { "loge", "log", "log10", "linear" },
          centre \in { None, Some(<< QInt(-750), Q(-1001, 2), QInt(-20) >>) },
          rot \in { None, Some(QZero), Some(QInt(30)) } :
         model = [ FreshModel EXCEPT
                     !.nodes_north = [ i \in 1..n_north |-> QInt(500) ],
                     !.nodes_east = [ i \in 1..n_east |-> Q(1001, 2) ],
                     !.nodes_z = [ i \in 1..n_z |-> QInt(10 * i) ],
                     !.res_model =
                         IF pat = "None" THEN None
                         ELSE [ c \in (1..n_north) \X (1..n_east) \X (1..n_z)
                                  |-> ResPattern(pat, c) ],
                     !.res_scale = res_scale,
                     !.grid_center = centre,
                     !.mesh_rotation_angle = rot ]
    /\ rmodel = FreshModel
    /\ model_file = << >>
    /\ data = NoObject
    /\ data_file = << >>
    /\ rdata = NoObject
    /\ args = << >>

NextModelFile == WriteModelFile \/ ReadModelFile

SpecModelFile == InitModelFile /\ [][NextModelFile]_vars

\* C3: after write_model_file and read_model_file the res_model read has
\* the shape of the one written and holds the written value at every
\* [north, east, vertical] index, for every grid size and every res_scale.
C3_ModelRoundTrip ==
    (pc = "read_model_file" /\ raised = "none") =>
        /\ DOMAIN rmodel.res_model = DOMAIN model.res_model
        /\ \A c \in DOMAIN model.res_model :
             rmodel.res_model[c] = model.res_model[c]

\* C11: after write_model_file and read_model_file on a fresh Model the
\* mesh_rotation_angle of the Model read is the angle that was written.
C11_MeshRotationRoundTrip ==
    (pc = "read_model_file" /\ raised = "none") =>
        rmodel.mesh_rotation_angle =
            Some(IF IsNone(model.mesh_rotation_angle) THEN FmtF(QZero, 3)
                 ELSE FmtF(Val(model.mesh_rotation_angle), 3))

\* the part of C16 about the data file: read_data_file of a file that is
\* not there raises ModEMError and leaves data_array as it was
C16_MissingDataFile ==
    (pc = "read_data_file" /\ data_file = << >>) =>
        /\ raised = "ModEMError"
        /\ rdata.data_array = FreshData.data_array

\* C16: read_data_file and read_model_file of a file that does not exist
\* each raise ModEMError before anything is opened or parsed, and leave
\* data_array and res_model as they were.
C16_MissingFileRaisesModEMError ==
    /\ C16_MissingDataFile
    /\ (pc = "read_model_file" /\ model_file = << >>) =>
         /\ raised = "ModEMError"
         /\ rmodel.res_model = FreshModel.res_model

-----------------------------------------------------------------------------
(***************************************************************************)
(* The mesh: Model.make_mesh.                                              *)
(*                                                                         *)
(* Lengths are metres.  station_locations is the Model's array of station  *)
(* coordinates, a sequence of records.  The depths given to np.logspace    *)
(* are whole powers of ten and the number of points is such that every     *)
(* point falls on a half decade, where the one-figure rounding of the code *)
(* gives 10^k or 3 x 10^k exactly.                                         *)
(***************************************************************************)

MaxMeshStations == 2
MaxPad == 2

\* np.round(x, -2) taken for the next multiple of 100 at or above x
RoundHundreds_Up(x) ==
    LET d  == x[2] * 100
        fl == x[1] \div d
    IN QInt(100 * (IF x[1] - fl * d > 0 THEN fl + 1 ELSE fl))

\* np.round(x, -2): the nearest multiple of 100, an exact tie going to the
\* even multiple
RoundHundreds(x) ==
    LET d  == x[2] * 100
        fl == x[1] \div d
        r2 == 2 * (x[1] - fl * d)
    IN QInt(100 * (IF r2 > d \/ (r2 = d /\ fl % 2 = 1) THEN fl + 1 ELSE fl))

\* np.arange(start, stop, step) for a positive step
Arange(start, stop, step) ==
    LET span == QDiv(QSub(stop, start), step)
        n    == IF span[1] <= 0 THEN 0
                ELSE (span[1] + span[2] - 1) \div span[2]
    IN Tuple([ i \in 1..n |-> QAdd(start, QMul(QInt(i - 1), step)) ])

\* np.mean
Mean(g) == QDiv(QSum(g), QInt(Len(g)))

QSetMin(S) == CHOOSE x \in S : \A y \in S : QLeq(x, y)
QSetMax(S) == CHOOSE x \in S : \A y \in S : QLeq(y, x)

RECURSIVE QInsert(_, _)
QInsert(x, s) ==
    IF s = << >> THEN << x >>
    ELSE IF QLeq(x, Head(s)) THEN << x >> \o s
    ELSE << Head(s) >> \o QInsert(x, Tail(s))

RECURSIVE QSorted(_)
\* sorted(...) of a sequence of reals, equal values kept
QSorted(s) == IF s = << >> THEN << >> ELSE QInsert(Head(s), QSorted(Tail(s)))

RECURSIVE AddPadding(_, _, _, _, _)
\* lines 1971-1979, 2001-2009: pad cells are added on both sides, cell ii
\* at round(cell_size * pad_stretch_h * ii, -2) from the current end node
AddPadding(gridr, cell_size, stretch, ii, pad) ==
    IF ii > pad THEN gridr
    ELSE LET add_size == RoundHundreds(QMul(QMul(cell_size, stretch), QInt(ii)))
         IN AddPadding(<< QSub(gridr[1], add_size) >> \o gridr
                         \o << QAdd(gridr[Len(gridr)], add_size) >>,
                       cell_size, stretch, ii + 1, pad)

\* lines 1984-1989 with a station on the node moved like one east of it
MoveNode_AlsoOnNode(g, s_val, tol) ==
    IF QLeq(QZero, QSub(s_val, g)) THEN QSub(g, tol) ELSE QAdd(g, tol)

\* lines 1984-1989: the node found within 2% of a station is moved away
\* from it; a station on the node itself leaves it where it is
MoveNode(g, s_val, tol) ==
    IF QLess(QZero, QSub(s_val, g)) THEN QSub(g, tol)
    ELSE IF QLess(QSub(s_val, g), QZero) THEN QAdd(g, tol)
    ELSE g

RECURSIVE RepairNodes(_, _, _)
\* lines 1981-1991, 2011-2021: for each station coordinate in ascending
\* order, the first node nearer than 2% of the cell size is moved
RepairNodes(gridr, s_sorted, cell_size) ==
    IF s_sorted = << >> THEN gridr
    ELSE
      LET s_val == Head(s_sorted)
          tol   == QMul(Q(2, 100), cell_size)
          near  == { i \in 1..Len(gridr) :
                       QLess(QAbs(QSub(s_val, gridr[i])), tol) }
      IN IF near = {} THEN RepairNodes(gridr, Tail(s_sorted), cell_size)
         ELSE RepairNodes(
                [ gridr EXCEPT ![SetMin(near)] = MoveNode(@, s_val, tol) ],
                Tail(s_sorted), cell_size)

\* lines 1948-1958: the edges of the station area on one axis, a cell and a
\* half beyond the outermost stations, and the edges rounded by np.round
CoreBounds(rel, cell_size) ==
    LET lo == QSub(QSetMin(Range(rel)), QDiv(QMul(cell_size, QInt(3)), QInt(2)))
        hi == QAdd(QSetMax(Range(rel)), QDiv(QMul(cell_size, QInt(3)), QInt(2)))
    IN [ lo |-> lo, hi |-> hi,
         lor |-> RoundHundreds(lo), hir |-> RoundHundreds(hi) ]

\* lines 1948-1991 (east) and 1954-2021 (north): one horizontal axis.  rel
\* holds the stations' coordinates on the axis; the result has the
\* stations' coordinates after the call, the node positions and the mean
\* that was taken off the nodes
HorizontalAxis(rel, cell_size, pad, stretch, rotation_is_zero) ==
    LET lor   == CoreBounds(rel, cell_size).lor
        hir   == CoreBounds(rel, cell_size).hir
        core  == Arange(lor, QAdd(hir, cell_size), cell_size)
        mean  == Mean(core)
        rel1  == IF rotation_is_zero
                 THEN Tuple([ i \in 1..Len(rel) |-> QAdd(rel[i], mean) ])
                 ELSE rel
        cent  == Tuple([ i \in 1..Len(core) |-> QSub(core[i], mean) ])
        padded == AddPadding(cent, cell_size, stretch, 1, pad)
    IN [ rel |-> rel1, mean |-> mean,
         gridr |-> RepairNodes(padded, QSorted(rel1), cell_size) ]

\* the position of a whole power of ten on the scale of half decades
HalfDecades(x) == 2 * Log10Int(x[1])

\* zz - zz % 10 ** np.floor(np.log10(zz)) at half decade t: 10^(t/2) for an
\* even t, and 3 x 10^((t-1)/2), the first figure of 3.16.. x 10^((t-1)/2),
\* for an odd t
OneFigure(t) ==
    IF t % 2 = 0 THEN QInt(Pow10(t \div 2)) ELSE QInt(3 * Pow10((t - 1) \div 2))

\* lines 2024-2030: np.logspace(log10(z1_layer), log10(z_target_depth), num)
\* cut down to one figure
LogZNodes(z1_layer, z_target_depth, num) ==
    LET t1 == HalfDecades(z1_layer)
        t2 == HalfDecades(z_target_depth)
    IN [ i \in 1..num |->
           IF num = 1 THEN OneFigure(t1)
           ELSE OneFigure(t1 + ((i - 1) * (t2 - t1)) \div (num - 1)) ]

\* lines 2034-2038: the pad cells below the target depth, each
\* round(z_0 * pad_stretch_v * ii, -2) thick with z_0 the last cell above
ZPadding(z_0, stretch, pad_z) ==
    [ ii \in 1..pad_z |-> RoundHundreds(QMul(QMul(z_0, stretch), QInt(ii))) ]

\* lines 2023-2047: the cell thicknesses from the top of the air down
ZNodes(m) ==
    LET num == m.n_layers - m.pad_z - m.n_airlayers + 1
        log_nodes == LogZNodes(m.z1_layer, m.z_target_depth, num)
    IN [ i \in 1..m.n_airlayers |-> m.z1_layer ]
       \o log_nodes
       \o ZPadding(log_nodes[Len(log_nodes)], m.pad_stretch_v, m.pad_z)

\* np.array([nodes[:ii].sum() for ii in range(n + 1)])
CumulativeGrid(nodes) ==
    Tuple([ ii \in 1..(Len(nodes) + 1) |-> QSum(SubSeq(nodes, 1, ii - 1)) ])

\* grid[1:] - grid[:-1]
Widths(gridr) ==
    Tuple([ i \in 1..(Len(gridr) - 1) |-> QSub(gridr[i + 1], gridr[i]) ])

\* make_mesh(update_data_center=False) on Model m with Data d: the new
\* Model, the new Data and the exception
MakeMeshOutcome(m, d) ==
    LET num == m.n_layers - m.pad_z - m.n_airlayers + 1 IN
    IF IsNone(m.station_locations)
    THEN [ model |-> m, data |-> d, exc |-> "TypeError" ]     \* line 1948
    ELSE
      LET sl  == Val(m.station_locations)
          rot0 == QIsZero(d.rotation_angle)
          ea  == HorizontalAxis([ i \in 1..Len(sl) |-> sl[i].rel_east ],
                                m.cell_size_east, m.pad_east,
                                m.pad_stretch_h, rot0)
          no  == HorizontalAxis([ i \in 1..Len(sl) |-> sl[i].rel_north ],
                                m.cell_size_north, m.pad_north,
                                m.pad_stretch_h, rot0)
          m1  == [ m EXCEPT !.station_locations =
                     Some([ i \in 1..Len(sl) |->
                              [ sl[i] EXCEPT !.rel_east = ea.rel[i],
                                             !.rel_north = no.rel[i] ] ]) ]
          d1  == IF rot0
                 THEN [ d EXCEPT !.center_position_EN =
                          Some(<< QSub(Val(@)[1], ea.mean),
                                  QSub(Val(@)[2], no.mean) >>) ]
                 ELSE d
      IN IF num < 0
         THEN [ model |-> m1, data |-> d1, exc |-> "ValueError" ] \* line 2024
         ELSE IF num = 0 /\ m.pad_z > 0
         THEN [ model |-> m1, data |-> d1, exc |-> "IndexError" ] \* line 2035
         ELSE
           LET z_nodes == ZNodes(m)
               z_grid  == CumulativeGrid(z_nodes)
               east_nodes  == Widths(ea.gridr)
               north_nodes == Widths(no.gridr)
           IN [ model |->
                  [ m1 EXCEPT
                      !.sea_level = z_grid[m.n_airlayers + 1],
                      !.grid_center =
                          Some(<< QDiv(QNeg(QSum([ i \in 1..Len(north_nodes) |->
                                     QAbs(north_nodes[i]) ])), QInt(2)),
                                  QDiv(QNeg(QSum([ i \in 1..Len(east_nodes) |->
                                     QAbs(east_nodes[i]) ])), QInt(2)),
                                  QZero >>),
                      !.nodes_east = east_nodes,
                      !.nodes_north = north_nodes,
                      !.nodes_z = z_nodes,
                      !.grid_east = ea.gridr,
                      !.grid_north = no.gridr,
                      !.grid_z = z_grid ],
                data |-> d1, exc |-> "none" ]

MakeMesh ==
    /\ pc = "new"
    /\ model.class = "Model"
    /\ \E out \in { MakeMeshOutcome(model, data) } :
         /\ model' = out.model
         /\ data' = out.data
         /\ raised' = out.exc
    /\ args' = [ update_data_center |-> FALSE ]
    /\ pc' = "make_mesh"
    /\ UNCHANGED << data_file, rdata, model_file, rmodel >>

\* station coordinates relative to the centre of the survey, metres
EastPositions == { -395, -105, -95, -85, 0 }
NorthPositions == { -600, 0 }
CellSizes == { << 500, 500 >>, << 100, 200 >>, << 40, 40 >> }
\* n_layers - pad_z - n_airlayers, one less than the number of log-spaced
\* depths
LogLayers == { -1, 0, 1, 2, 4 }

\* station ss of the Model's station_locations
MeshStation(ss, e, n) ==
    [ station |-> ss, rel_east |-> QInt(e), rel_north |-> QInt(n),
      elev |-> QZero ]

\* a Model constructed on a Data object whose stations are located, with
\* its mesh parameters set, before make_mesh
InitMesh ==
    /\ pc = "new"
    /\ raised = "none"
    /\ \E rot \in { QZero, QInt(30) } :
         data = [ FreshData EXCEPT
                    !.rotation_angle = rot,
                    !.center_position_EN = Some(<< QInt(500000), QInt(6000000) >>) ]
    /\ \E ns \in 1..MaxMeshStations, e1 \in EastPositions, n1 \in NorthPositions,
          e2 \in EastPositions, cs \in CellSizes,
          pad_east \in { 0, MaxPad }, pad_z \in { 0, MaxPad },
          n_airlayers \in 0..1, k \in LogLayers :
         /\ ns = 1 => e2 = 0
         /\ ns = 2 => n_airlayers = 0
         /\ model = [ FreshModel EXCEPT
                        !.station_locations =
                            Some([ ss \in 1..ns |->
                                     IF ss = 1 THEN MeshStation(1, e1, n1)
                                     ELSE IF ss = 2 THEN MeshStation(2, e2, 0)
                                     ELSE MeshStation(ss, 100 * ss, 100 * ss) ]),
                        !.cell_size_east = QInt(cs[1]),
                        !.cell_size_north = QInt(cs[2]),
                        !.pad_east = pad_east,
                        !.pad_north = MaxPad - pad_east,
                        !.pad_z = pad_z,
                        !.n_airlayers = n_airlayers,
                        !.z_target_depth = QInt(1000),
                        !.n_layers = pad_z + n_airlayers + k ]
    /\ data_file = << >>
    /\ rdata = NoObject
    /\ model_file = << >>
    /\ rmodel = NoObject
    /\ args = << >>

NextMesh == MakeMesh

SpecMesh == InitMesh /\ [][NextMesh]_vars

StrictlyIncreasing(g) == \A i \in 1..(Len(g) - 1) : QLess(g[i], g[i + 1])

\* C4: after make_mesh grid_east, grid_north and grid_z are strictly
\* increasing and every cell width in nodes_east, nodes_north and nodes_z is
\* strictly positive, for positive cell sizes, z1_layer and stretch factors
\* and any pad counts.
C4_GridsStrictlyIncreasing ==
    (pc = "make_mesh" /\ raised = "none") =>
        /\ StrictlyIncreasing(model.grid_east)
        /\ StrictlyIncreasing(model.grid_north)
        /\ StrictlyIncreasing(model.grid_z)
        /\ \A i \in 1..Len(model.nodes_east) : QLess(QZero, model.nodes_east[i])
        /\ \A i \in 1..Len(model.nodes_north) : QLess(QZero, model.nodes_north[i])
        /\ \A i \in 1..Len(model.nodes_z) : QLess(QZero, model.nodes_z[i])

\* C5: after make_mesh every station is at least 2% of the cell size away
\* from every node of grid_east in its east coordinate and from every node
\* of grid_north in its north coordinate.
C5_StationsClearOfNodes ==
    (pc = "make_mesh" /\ raised = "none") =>
        \A ss \in 1..Len(Val(model.station_locations)) :
            LET sta == Val(model.station_locations)[ss] IN
            /\ \A i \in 1..Len(model.grid_east) :
                 QLeq(QMul(Q(2, 100), model.cell_size_east),
                      QAbs(QSub(sta.rel_east, model.grid_east[i])))
            /\ \A i \in 1..Len(model.grid_north) :
                 QLeq(QMul(Q(2, 100), model.cell_size_north),
                      QAbs(QSub(sta.rel_north, model.grid_north[i])))

\* C17: after make_mesh the mesh has n_layers cells in the vertical, the air
\* layers and the pad cells counted: nodes_z holds n_layers widths and
\* grid_z n_layers + 1 nodes.
C17_NLayersCells ==
    (pc = "make_mesh" /\ raised = "none") =>
        /\ Len(model.nodes_z) = model.n_layers
        /\ Len(model.grid_z) = model.n_layers + 1

\* what make_mesh builds: one cell more than n_layers
C17_OneCellMore ==
    (pc = "make_mesh" /\ raised = "none") =>
        /\ Len(model.nodes_z) = model.n_layers + 1
        /\ Len(model.grid_z) = model.n_layers + 2

\* C18: after make_mesh the deepest node of grid_z, measured down from the
\* ground surface, lies at z_bottom.
C18_BottomAtZBottom ==
    (pc = "make_mesh" /\ raised = "none") =>
        QSub(model.grid_z[Len(model.grid_z)], model.sea_level) = model.z_bottom

\* the bounds make_mesh computes on the east and on the north axis of
\* Model m
C25_East(m) ==
    CoreBounds([ i \in 1..Len(Val(m.station_locations)) |->
                   Val(m.station_locations)[i].rel_east ], m.cell_size_east)
C25_North(m) ==
    CoreBounds([ i \in 1..Len(Val(m.station_locations)) |->
                   Val(m.station_locations)[i].rel_north ], m.cell_size_north)

C25_Hundreds(x) == x[2] = 1 /\ x[1] % 100 = 0

\* the core nodes make_mesh lays between the bounds b, and those of grid g
\* with pad cells on either side
C25_CoreSpans(g, b, cell_size, pad) ==
    Len(g) = Len(Arange(b.lor, QAdd(b.hir, cell_size), cell_size)) + 2 * pad

\* C25 as stated: the rounded bounds make_mesh lays its core grid between
\* are multiples of 100 m that enclose the station area widened by a cell
\* and a half: westr <= west, eastr >= east, southr <= south,
\* northr >= north.
C25_BoundsEnclose ==
    [][(pc = "new" /\ pc' = "make_mesh" /\ raised' = "none") =>
         LET e == C25_East(model)
             n == C25_North(model)
         IN /\ C25_Hundreds(e.lor) /\ C25_Hundreds(e.hir)
            /\ C25_Hundreds(n.lor) /\ C25_Hundreds(n.hir)
            /\ C25_CoreSpans(model'.grid_east, e, model.cell_size_east,
                             model.pad_east)
            /\ C25_CoreSpans(model'.grid_north, n, model.cell_size_north,
                             model.pad_north)
            /\ QLeq(e.lor, e.lo) /\ QLeq(e.hi, e.hir)
            /\ QLeq(n.lor, n.lo) /\ QLeq(n.hi, n.hir)]_vars

\* C25 as amended: the rounded bounds make_mesh lays its core grid between
\* are multiples of 100 m, each within 50 m of the edge of the station area
\* widened by a cell and a half, on either side of it.
C25_BoundsNearest ==
    [][(pc = "new" /\ pc' = "make_mesh" /\ raised' = "none") =>
         LET e == C25_East(model)
             n == C25_North(model)
             near(x, y) == QLeq(QAbs(QSub(x, y)), QInt(50))
         IN /\ C25_Hundreds(e.lor) /\ C25_Hundreds(e.hir)
            /\ C25_Hundreds(n.lor) /\ C25_Hundreds(n.hir)
            /\ C25_CoreSpans(model'.grid_east, e, model.cell_size_east,
                             model.pad_east)
            /\ C25_CoreSpans(model'.grid_north, n, model.cell_size_north,
                             model.pad_north)
            /\ near(e.lor, e.lo) /\ near(e.hir, e.hi)
            /\ near(n.lor, n.lo) /\ near(n.hir, n.hi)]_vars

\* a mesh made on stations that make_mesh left where they were, whose
\* western bound was rounded to the inside of the widened station area
C25_Witness ==
    /\ pc = "make_mesh" /\ raised = "none"
    /\ ~QIsZero(data.rotation_angle)
    /\ QLess(C25_East(model).lo, C25_East(model).lor)
    /\ C25_CoreSpans(model.grid_east, C25_East(model), model.cell_size_east,
                     model.pad_east)

\* coordinate x lies strictly between the outermost nodes of the cells of
\* grid g that are not pad cells
C29_InsideCore(x, g, pad) ==
    QLess(g[pad + 1], x) /\ QLess(x, g[Len(g) - pad])

\* C29: after make_mesh every station lies strictly inside the region of
\* the core cells (the cells that are not pad cells) on both horizontal
\* axes, for stations whose relative coordinates are not centred on zero
\* and for a rotation_angle of the Data object other than zero.
C29_StationsInsideCore ==
    (pc = "make_mesh" /\ raised = "none") =>
        \A ss \in 1..Len(Val(model.station_locations)) :
            LET sta == Val(model.station_locations)[ss] IN
            /\ C29_InsideCore(sta.rel_east, model.grid_east, model.pad_east)
            /\ C29_InsideCore(sta.rel_north, model.grid_north, model.pad_north)


-----------------------------------------------------------------------------
(***************************************************************************)
(* UTM zones: Data.project_sites.                                          *)
(*                                                                         *)
(* A zone string such as '55H' is the pair << 55, "H" >> and the empty     *)
(* string a new data_array holds is << >>.  Coordinates are metres.  The   *)
(* projection utm2ll.LLtoUTM lies outside these source files: what it      *)
(* returns for the latitude and longitude of row ii is an input, held in   *)
(* the table utm2ll of the Data object.                                    *)
(***************************************************************************)

MaxUtmStations == 3

\* line 427
utm_zones_dict ==
    [ l \in { "C", "D", "E", "F", "G", "H", "J", "K", "L", "M",
              "N", "P", "Q", "R", "S", "T", "U", "V", "W", "X" } |->
        CASE l = "C" -> 0  [] l = "D" -> 1  [] l = "E" -> 2  [] l = "F" -> 3
          [] l = "G" -> 4  [] l = "H" -> 5  [] l = "J" -> 6  [] l = "K" -> 7
          [] l = "L" -> 8  [] l = "M" -> 9  [] l = "N" -> 10 [] l = "P" -> 11
          [] l = "Q" -> 12 [] l = "R" -> 13 [] l = "S" -> 14 [] l = "T" -> 15
          [] l = "U" -> 16 [] l = "V" -> 17 [] l = "W" -> 18 [] OTHER -> 19 ]

\* int(zone[0:-1]) and zone[-1]
ZoneNumber(zone) == zone[1]
ZoneLetter(zone) == zone[2]

\* utm2ll.LLtoUTM(self._utm_ellipsoid, c_arr['lat'], c_arr['lon']) for row ii
LLtoUTM(d, ii) == d.utm2ll[ii]

\* lines 432-437: every row with a latitude and a longitude other than 0 is
\* projected into its own zone
ProjectRows(d) ==
    LET rows == d.data_array IN
    [ ii \in 1..Len(rows) |->
        IF ~QIsZero(rows[ii].lat) /\ ~QIsZero(rows[ii].lon)
        THEN [ rows[ii] EXCEPT !.zone = LLtoUTM(d, ii).zone,
                               !.east = LLtoUTM(d, ii).east,
                               !.north = LLtoUTM(d, ii).north ]
        ELSE rows[ii] ]

\* line 440
ZoneList(rows) == { rows[ii].zone : ii \in 1..Len(rows) }

\* lines 443-448: the number of rows in a zone
ZoneCount(rows, zone) == Cardinality({ ii \in 1..Len(rows) : rows[ii].zone = zone })

\* lines 452-456 with the smallest count taken in place of the largest
MainZoneCandidates_Fewest(rows) ==
    { zone \in ZoneList(rows) :
        \A other \in ZoneList(rows) : ZoneCount(rows, zone) <= ZoneCount(rows, other) }

\* lines 452-456: the dict is flipped to count -> zone and the zone under the
\* largest count taken; of several zones with that count the one the dict
\* happens to list last is kept
MainZoneCandidates(rows) ==
    { zone \in ZoneList(rows) :
        \A other \in ZoneList(rows) : ZoneCount(rows, other) <= ZoneCount(rows, zone) }

\* lines 491-506 with the shift added on both sides
EastShift_AlwaysAdded(east, c_utm_zone, main_utm_zone, grid_size_east) ==
    QAdd(east, QMul(grid_size_east,
                    QInt(Abs(ZoneNumber(c_utm_zone) - ZoneNumber(main_utm_zone)))))

\* lines 491-506
EastShift(east, c_utm_zone, main_utm_zone, grid_size_east) ==
    LET east_shift ==
            QMul(grid_size_east,
                 QInt(Abs(ZoneNumber(c_utm_zone) - ZoneNumber(main_utm_zone))))
    IN IF ZoneNumber(c_utm_zone) > ZoneNumber(main_utm_zone)
       THEN QAdd(east, east_shift)
       ELSE IF ZoneNumber(c_utm_zone) < ZoneNumber(main_utm_zone)
       THEN QSub(east, east_shift)
       ELSE east

\* lines 468-488
NorthShift(north, c_utm_zone, main_utm_zone, grid_size_north) ==
    LET zone_shift == 1 - Abs(utm_zones_dict[ZoneLetter(c_utm_zone)]
                              - utm_zones_dict[ZoneLetter(main_utm_zone)])
        north_shift == QMul(grid_size_north, QInt(zone_shift))
    IN IF zone_shift > 1 THEN QAdd(north, north_shift)
       ELSE IF zone_shift < -1 THEN QSub(north, north_shift)
       ELSE north

RECURSIVE ShiftRows(_, _, _, _)
\* lines 460-506: the rows outside the main zone, from row ii on; indexing
\* an empty zone string at line 468 raises IndexError and leaves the rows
\* after it as they were
ShiftRows(rows, ii, main_utm_zone, d) ==
    IF ii > Len(rows) THEN [ rows |-> rows, exc |-> "none" ]
    ELSE IF rows[ii].zone = main_utm_zone
    THEN ShiftRows(rows, ii + 1, main_utm_zone, d)
    ELSE IF rows[ii].zone = << >> \/ main_utm_zone = << >>
    THEN [ rows |-> rows, exc |-> "IndexError" ]
    ELSE ShiftRows(
           [ rows EXCEPT
               ![ii].north = NorthShift(@, rows[ii].zone, main_utm_zone,
                                        d._utm_grid_size_north),
               ![ii].east = EastShift(@, rows[ii].zone, main_utm_zone,
                                      d._utm_grid_size_east) ],
           ii + 1, main_utm_zone, d)

\* project_sites() on Data d, main_utm_zone being the zone line 456 finds
ProjectSitesOutcome(d, main_utm_zone) ==
    LET rows == ProjectRows(d) IN
    IF Cardinality(ZoneList(rows)) = 1
    THEN [ data |-> [ d EXCEPT !.data_array = rows ], exc |-> "none" ]
    ELSE LET out == ShiftRows(rows, 1, main_utm_zone, d)
         IN [ data |-> [ d EXCEPT !.data_array = out.rows,
                                  !._utm_cross = TRUE ],
              exc |-> out.exc ]

ProjectSites ==
    /\ pc = "new"
    /\ data.class = "Data"
    /\ \E main_utm_zone \in MainZoneCandidates(ProjectRows(data)) :
         \E out \in { ProjectSitesOutcome(data, main_utm_zone) } :
           /\ data' = out.data
           /\ raised' = out.exc
    /\ args' = << >>
    /\ pc' = "project_sites"
    /\ UNCHANGED << data_file, rdata, model, model_file, rmodel >>

ZoneNumbers == { 54, 55, 57 }
ZoneLetters == { "H", "M" }
Eastings == { 300000, 700000 }

\* the table's entry for latitude 0, which project_sites never looks up
NotLocated == [ zone |-> << >>, east |-> QZero, north |-> QZero ]

\* what LLtoUTM may return for a station: zone, easting and northing
Projections ==
    { [ zone |-> << n, l >>, east |-> QInt(e),
        north |-> QInt(IF l = "H" THEN 6015000 ELSE 9557000) ] :
        n \in ZoneNumbers, l \in ZoneLetters, e \in Eastings }
    \cup { NotLocated }

\* row ss of a new data_array (np.zeros): no zone, no easting or northing;
\* a station not located has latitude 0
UtmRow(ss, located) ==
    [ station |-> ss,
      lat |-> IF located THEN QInt(-36) ELSE QZero,
      lon |-> QInt(140 + ss),
      zone |-> << >>, east |-> QZero, north |-> QZero ]

InitUtm ==
    /\ pc = "new"
    /\ raised = "none"
    /\ \E ns \in 1..MaxUtmStations :
       \E utm2ll \in [ 1..ns -> Projections ] :
         data = [ FreshData EXCEPT
                    !.data_array =
                        [ ss \in 1..ns |-> UtmRow(ss, utm2ll[ss] # NotLocated) ] ]
                @@ [ utm2ll |-> utm2ll ]
    /\ data_file = << >>
    /\ rdata = NoObject
    /\ model = NoObject
    /\ model_file = << >>
    /\ rmodel = NoObject
    /\ args = << >>

NextUtm == ProjectSites

SpecUtm == InitUtm /\ [][NextUtm]_vars

\* C6: after project_sites a station whose zone number differs from the
\* main zone's by k has its own-zone easting plus k x 640000 m when its
\* zone number is the higher one and minus k x 640000 m when it is the
\* lower one, the main zone being one of the zones holding most stations;
\* with a single zone every easting is the own-zone easting.
C6_EastingShiftedByZones ==
    (pc = "project_sites" /\ raised = "none") =>
        LET rows == data.data_array
            Located == { ii \in 1..Len(rows) : rows[ii].zone # << >> }
        IN IF Cardinality(ZoneList(rows)) = 1
           THEN \A ii \in Located : rows[ii].east = LLtoUTM(data, ii).east
           ELSE \E main \in MainZoneCandidates(rows) :
                  \A ii \in Located :
                    LET k == ZoneNumber(rows[ii].zone) - ZoneNumber(main) IN
                    /\ k > 0 => rows[ii].east
                                  = QAdd(LLtoUTM(data, ii).east, QInt(k * 640000))
                    /\ k < 0 => rows[ii].east
                                  = QSub(LLtoUTM(data, ii).east, QInt((-k) * 640000))
                    /\ k = 0 => rows[ii].east = LLtoUTM(data, ii).east

\* a survey over three zones: one station two zones east of the main zone
\* and one a zone west of it
C6_Witness ==
    /\ pc = "project_sites"
    /\ raised = "none"
    /\ data._utm_cross
    /\ \E ii, jj \in 1..Len(data.data_array) :
         /\ data.data_array[ii].east
              = QAdd(LLtoUTM(data, ii).east, QInt(1280000))
         /\ data.data_array[jj].east
              = QSub(LLtoUTM(data, jj).east, QInt(640000))

\* C20: when the stations fall in more than one zone and project_sites
\* returns, there is a zone holding as many stations as any other (one of
\* them when several hold that many) such that every station of that zone
\* keeps the easting and northing of its own projection and every other
\* station is shifted relative to that zone.
C20_CanonicalZoneHoldsMost ==
    (pc = "project_sites" /\ raised = "none"
     /\ Cardinality(ZoneList(data.data_array)) > 1) =>
        LET rows == data.data_array IN
        \E main \in ZoneList(rows) :
          /\ \A other \in ZoneList(rows) :
               ZoneCount(rows, other) <= ZoneCount(rows, main)
          /\ \A ii \in 1..Len(rows) :
               IF rows[ii].zone = main
               THEN /\ rows[ii].east = LLtoUTM(data, ii).east
                    /\ rows[ii].north = LLtoUTM(data, ii).north
               ELSE /\ rows[ii].east =
                         EastShift(LLtoUTM(data, ii).east, rows[ii].zone, main,
                                   data._utm_grid_size_east)
                    /\ rows[ii].north =
                         NorthShift(LLtoUTM(data, ii).north, rows[ii].zone, main,
                                    data._utm_grid_size_north)

\* two stations of one zone, left where their projection put them, and a
\* third in another zone, whose easting is shifted
C20_Witness ==
    /\ pc = "project_sites"
    /\ raised = "none"
    /\ \E ii, jj, kk \in 1..Len(data.data_array) :
         /\ ii # jj
         /\ data.data_array[ii].zone = data.data_array[jj].zone
         /\ data.data_array[kk].zone # data.data_array[ii].zone
         /\ data.data_array[ii].east = LLtoUTM(data, ii).east
         /\ data.data_array[jj].north = LLtoUTM(data, jj).north
         /\ data.data_array[kk].east # LLtoUTM(data, kk).east

\* two zones of equal count: one station each, the second one shifted
C20_TieWitness ==
    /\ pc = "project_sites"
    /\ raised = "none"
    /\ Len(data.data_array) = 2
    /\ data.data_array[1].zone # data.data_array[2].zone
    /\ data.data_array[1].east = LLtoUTM(data, 1).east
    /\ data.data_array[2].east # LLtoUTM(data, 2).east

\* C21: after project_sites a station whose band letter differs from the
\* main zone's has its northing moved by a whole multiple of 888960 m, north
\* (added) when its band lies north of the main zone's band and south
\* (subtracted) when it lies south, the main zone being one of the zones
\* holding most stations.
C21_NorthingShiftedByBands ==
    (pc = "project_sites" /\ raised = "none"
     /\ Cardinality(ZoneList(data.data_array)) > 1) =>
        LET rows == data.data_array IN
        \E main \in MainZoneCandidates(rows) :
          \A ii \in 1..Len(rows) :
            LET bands == utm_zones_dict[ZoneLetter(rows[ii].zone)]
                           - utm_zones_dict[ZoneLetter(main)]
                moved == QSub(rows[ii].north, LLtoUTM(data, ii).north)
            IN /\ moved[2] = 1 /\ moved[1] % 888960 = 0
               /\ bands > 0 => moved[1] > 0
               /\ bands < 0 => moved[1] < 0
               /\ bands = 0 => moved[1] = 0

\* what project_sites does with the northing: bands three or more apart add
\* (bands apart - 1) x 888960 m on either side, nearer bands nothing
C21_NorthingAsShifted ==
    (pc = "project_sites" /\ raised = "none"
     /\ Cardinality(ZoneList(data.data_array)) > 1) =>
        LET rows == data.data_array IN
        \E main \in MainZoneCandidates(rows) :
          \A ii \in 1..Len(rows) :
            LET apart == Abs(utm_zones_dict[ZoneLetter(rows[ii].zone)]
                               - utm_zones_dict[ZoneLetter(main)])
            IN rows[ii].north =
                 QAdd(LLtoUTM(data, ii).north,
                      QInt(IF apart >= 3 THEN (apart - 1) * 888960 ELSE 0))

-----------------------------------------------------------------------------
(***************************************************************************)
(* Topography: Model.add_topography with                                   *)
(* assign_resistivity_from_surfacedata and project_stations_on_topography. *)
(*                                                                         *)
(* Depths are metres, positive down from the top of the grid; elevations   *)
(* are metres, positive up from sea level.  An elevation array is a        *)
(* function on the pairs << north, east >> and surface_dict a function on  *)
(* the names of its surfaces (None while the attribute does not exist).    *)
(* Resistivities here span 0.3 to 1e17 Ohm-m, too wide for one scale of    *)
(* fractions: a resistivity is m x 10^e, the record [m, e] with m not a    *)
(* multiple of ten.  The Model's Data attribute is the object data.        *)
(***************************************************************************)

MaxTopoNorth == 2
MaxTopoEast == 1

Sci(m, e) == [ m |-> m, e |-> e ]
\* a < b for positive a, b with less than three figures each
SciLess(a, b) ==
    IF a.e - b.e >= 7 THEN FALSE
    ELSE IF b.e - a.e >= 7 THEN TRUE
    ELSE LET lo == Min2(a.e, b.e)
         IN a.m * Pow10(a.e - lo) < b.m * Pow10(b.e - lo)
\* 0.95 * a
NinetyFivePercent(a) == Sci(95 * a.m, a.e - 2)

\* np.ceil
Ceil(x) == QInt(-((-x[1]) \div x[2]))

\* np.mean([grid_z[:-1], grid_z[1:]], axis=0): the depth of each cell centre
GridCentres(grid_z) ==
    Tuple([ k \in 1..(Len(grid_z) - 1) |->
              QDiv(QAdd(grid_z[k], grid_z[k + 1]), QInt(2)) ])

\* len(res_model), the number of north rows
NumNorth(res) == SetMax({ c[1] : c \in DOMAIN res })

\* lines 2280-2304
AssignResistivityFromSurfacedata(m, surfacename, resistivity_value, where) ==
    LET gcz == GridCentres(m.grid_z)
        sd  == Val(m.surface_dict)
        surfacedata(j, i) == QSub(m.sea_level, sd[surfacename][<< j, i >>])
        topo(j, i) ==
            IF "topography" \in DOMAIN sd
            THEN IF surfacename = "topography" THEN QZero
                 ELSE QSub(m.sea_level, sd["topography"][<< j, i >>])
            ELSE m.sea_level
    IN [ m EXCEPT !.res_model =
           [ c \in DOMAIN @ |->
               IF where = "above"
               THEN IF /\ QLeq(gcz[c[3]], surfacedata(c[1], c[2]))
                       /\ QLess(topo(c[1], c[2]), gcz[c[3]])
                    THEN resistivity_value ELSE @[c]
               ELSE IF QLess(surfacedata(c[1], c[2]), gcz[c[3]])
                    THEN resistivity_value ELSE @[c] ] ]

\* lines 2119-2133: the air layers are made ceil(highest elevation /
\* n_airlayers) thick and the layers below moved by the change in depth of
\* sea level
NewAirLayers(m) ==
    LET topography == Val(m.surface_dict)["topography"]
        highest == QSetMax({ topography[p] : p \in DOMAIN topography })
        cs == Ceil(QDiv(highest, QInt(m.n_airlayers)))
        new_airlayers == [ k \in 1..(m.n_airlayers + 1) |-> QMul(QInt(k - 1), cs) ]
        add_z == QSub(new_airlayers[m.n_airlayers + 1], m.grid_z[m.n_airlayers + 1])
        grid_z == Tuple([ k \in 1..Len(m.grid_z) |->
                            IF k <= m.n_airlayers + 1 THEN new_airlayers[k]
                            ELSE QAdd(m.grid_z[k], add_z) ])
    IN [ m EXCEPT !.grid_z = grid_z,
                  !.nodes_z = Widths(grid_z),
                  !.sea_level = grid_z[m.n_airlayers + 1] ]

\* lines 2153-2163: the mask of cell c, from all ones
MaskOf(m, c) ==
    LET gcz == GridCentres(m.grid_z)
        topo == QSub(m.sea_level, Val(m.surface_dict)["topography"][<< c[1], c[2] >>])
    IN IF QLess(m.sea_level, gcz[c[3]]) /\ QLeq(gcz[c[3]], topo) THEN 9
       ELSE IF QLeq(gcz[c[3]], topo) THEN 0
       ELSE 1

\* lines 2159-2163
SeaWater(m, sea_resistivity) ==
    [ m EXCEPT !.res_model =
        [ c \in DOMAIN @ |-> IF MaskOf(m, c) = 9 THEN sea_resistivity ELSE @[c] ] ]

\* line 2165 left out
ReverseNorth_NotReversed(arr) == arr

\* line 2165, arr[::-1]: the north rows in reverse order
ReverseNorth(arr) ==
    [ c \in DOMAIN arr |-> arr[<< NumNorth(arr) + 1 - c[1], c[2], c[3] >>] ]

\* np.where((s <= grid[1:]) & (s > grid[:-1]))[0]: the cells holding s
CellsHolding(s_val, gridr) ==
    { i \in 1..(Len(gridr) - 1) : QLeq(s_val, gridr[i + 1]) /\ QLess(gridr[i], s_val) }

\* lines 2320-2329: the cell of column [syi, sxi] the station is put on top
\* of, 0 when np.amin finds no cell to choose from; air_resistivity is the
\* default of project_stations_on_topography
StationCell(m, syi, sxi, air_resistivity) ==
    LET mask == ReverseNorth(m.covariance_mask)
        ks   == { c[3] : c \in DOMAIN m.res_model }
        sea  == { k \in ks : mask[<< syi, sxi, k >>] = 9 }
        air  == { k \in ks : SciLess(NinetyFivePercent(air_resistivity),
                                     m.res_model[<< syi, sxi, k >>]) }
        rock == { k \in ks : SciLess(m.res_model[<< syi, sxi, k >>],
                                     NinetyFivePercent(air_resistivity)) }
    IN IF sea # {} THEN SetMax(sea)
       ELSE IF air # {} THEN (IF rock = {} THEN 0 ELSE SetMin(rock))
       ELSE 1

RECURSIVE ProjectStations(_, _, _)
\* lines 2310-2332: the stations from station ss on
ProjectStations(m, d, ss) ==
    LET sl == Val(m.station_locations) IN
    IF ss > Len(sl) THEN [ model |-> m, data |-> d, exc |-> "none" ]
    ELSE
      LET sxs == CellsHolding(sl[ss].rel_east, m.grid_east)
          sys == CellsHolding(sl[ss].rel_north, m.grid_north)
      IN IF sxs = {} \/ sys = {}
         THEN [ model |-> m, data |-> d, exc |-> "IndexError" ]
         ELSE
           LET szi == StationCell(m, SetMin(sys), SetMin(sxs), Sci(1, 17)) IN
           IF szi = 0
           THEN [ model |-> m, data |-> d, exc |-> "ValueError" ]
           ELSE
             LET elev == QAdd(m.grid_z[szi], QInt(1))
                 m1 == [ m EXCEPT !.station_locations =
                           Some([ sl EXCEPT ![ss].elev = elev ]) ]
             IN IF d.class # "Data"
                THEN [ model |-> m1, data |-> d, exc |-> "AttributeError" ]
                ELSE ProjectStations(
                       m1, [ d EXCEPT !.data_array[ss].elev = elev ], ss + 1)

\* lines 859-874, Data._set_station_locations on a Data with a data_array
SetStationLocations(d, station_locations) ==
    [ d EXCEPT !.data_array =
        [ ii \in 1..Len(@) |->
            LET found == { ss \in 1..Len(station_locations) :
                             station_locations[ss].station = @[ii].station }
            IN IF found = {} THEN @[ii]
               ELSE LET s_arr == station_locations[SetMax(found)]
                    IN [ @[ii] EXCEPT !.lat = s_arr.lat, !.lon = s_arr.lon,
                                      !.elev = s_arr.elev,
                                      !.rel_east = s_arr.rel_east,
                                      !.rel_north = s_arr.rel_north ] ] ]

\* lines 2306-2335: project_stations_on_topography(); lines holds the data
\* file written
ProjectStationsOnTopography(m, d) ==
    IF IsNone(m.station_locations)
    THEN [ model |-> m, data |-> d, lines |-> None, exc |-> "TypeError" ]
    ELSE
      LET out == ProjectStations(m, d, 1) IN
      IF out.exc # "none"
      THEN [ model |-> out.model, data |-> out.data, lines |-> None,
             exc |-> out.exc ]
      ELSE
        LET d1 == SetStationLocations(out.data, Val(out.model.station_locations))
            written == WriteDataOutcome(d1, TRUE)
        IN [ model |-> out.model,
             data |-> [ d1 EXCEPT !.header_strings = SetHeaderString(d1) ],
             lines |-> IF written.exc = "none" THEN Some(written.lines) ELSE None,
             exc |-> written.exc ]

\* lines 2142-2166 on a Model whose surface_dict holds the topography
MaskAndProject(m, d, sea_resistivity) ==
    LET masked == [ c \in DOMAIN m.res_model |-> MaskOf(m, c) ]
        m1 == [ SeaWater(m, sea_resistivity) EXCEPT
                  !.covariance_mask = ReverseNorth(masked) ]
    IN ProjectStationsOnTopography(m1, d)

\* elevations of the surface, metres above sea level
Elevations == { -150, 0, 25, 100 }

\* the elevation arrays a caller may pass for Model m: one elevation for
\* each north row
TopographyArrays(m) ==
    LET n_north == Len(m.grid_north) - 1
        n_east  == Len(m.grid_east) - 1
    IN { Some([ p \in (1..n_north) \X (1..n_east) |-> QInt(row[p[1]]) ]) :
           row \in [ 1..n_north -> Elevations ] }

\* add_topography(topographyfile=None, topographyarray, air_resistivity,
\* sea_resistivity) on a Model m with a res_model, whose Data is d
AddTopographyOutcome(m, d, topographyarray, air_resistivity, sea_resistivity) ==
    LET ones == [ c \in DOMAIN m.res_model |-> 1 ]
        stop(mm, exc) == [ model |-> mm, data |-> d, lines |-> None, exc |-> exc ]
        m1 == IF IsNone(topographyarray) THEN m
              ELSE [ m EXCEPT !.surface_dict =
                       Some(("topography" :> Val(topographyarray)) @@ Val(@)) ]
        missing == IF IsNone(m1.surface_dict) THEN "AttributeError"
                   ELSE IF "topography" \notin DOMAIN Val(m1.surface_dict)
                   THEN "KeyError" ELSE "none"
    IN IF ~IsNone(topographyarray) /\ IsNone(m.surface_dict)
       THEN stop(m, "AttributeError")                           \* line 2117
       ELSE IF m.n_airlayers > 0
       THEN IF missing # "none" THEN stop(m1, missing)          \* line 2121
            ELSE MaskAndProject(
                   AssignResistivityFromSurfacedata(
                     NewAirLayers(m1), "topography", air_resistivity, "above"),
                   d, sea_resistivity)
       ELSE IF missing # "none"
       THEN stop([ m1 EXCEPT !.covariance_mask = ones ], missing) \* line 2151
       ELSE MaskAndProject(m1, d, sea_resistivity)

AddTopography ==
    /\ pc = "new"
    /\ model.class = "Model"
    /\ \E topographyarray \in TopographyArrays(model) \cup { None },
          air_resistivity \in { Sci(1, 17), Sci(1, 12) } :
         /\ \E out \in { AddTopographyOutcome(model, data, topographyarray,
                                              air_resistivity, Sci(3, -1)) } :
              /\ model' = out.model
              /\ data' = out.data
              /\ data_file' = IF IsNone(out.lines) THEN data_file ELSE Val(out.lines)
              /\ raised' = out.exc
         /\ args' = [ topographyarray |-> topographyarray,
                      air_resistivity |-> air_resistivity,
                      sea_resistivity |-> Sci(3, -1) ]
    /\ pc' = "add_topography"
    /\ UNCHANGED << rdata, model_file, rmodel >>

\* lines 883-885, Data._get_station_locations
StationLocations(d) ==
    [ ii \in 1..Len(d.data_array) |->
        [ station |-> d.data_array[ii].station,
          lat |-> d.data_array[ii].lat, lon |-> d.data_array[ii].lon,
          elev |-> d.data_array[ii].elev,
          rel_north |-> d.data_array[ii].rel_north,
          rel_east |-> d.data_array[ii].rel_east ] ]

\* a Model with a mesh of cells 1000 m wide, n_airlayers air layers of 10 m
\* over layers of 100 m and 200 m, sea level at the foot of the air layers
\* as make_mesh leaves it or set by the caller to a depth of 150 m, and a
\* uniform res_model of 100 Ohm-m; its Data, when it has one, holds the
\* stations
InitTopo ==
    /\ pc = "new"
    /\ raised = "none"
    /\ \E n_airlayers \in { 0, 2 }, ns \in 1..MaxStations, has_data \in BOOLEAN,
          sea_level_set \in BOOLEAN,
          surface_dict \in { None, Some(<< >>),
                             Some([ topography |->
                                      [ p \in (1..MaxTopoNorth) \X (1..MaxTopoEast)
                                          |-> QInt(25) ] ]) } :
         LET grid_z == [ k \in 1..n_airlayers |-> QInt(10 * (k - 1)) ]
                       \o << QInt(10 * n_airlayers),
                             QInt(10 * n_airlayers + 100),
                             QInt(10 * n_airlayers + 300) >>
             d == [ FreshData EXCEPT
                      !.data_array = Survey(ns, "full", 0, "full", "small", "zero"),
                      !.period_list = PeriodSeconds ]
         IN /\ data = IF has_data THEN d ELSE NoObject
            /\ model = [ FreshModel EXCEPT
                 !.n_airlayers = n_airlayers,
                 !.station_locations =
                     IF has_data THEN Some(StationLocations(d)) ELSE None,
                 !.grid_north = [ j \in 1..(MaxTopoNorth + 1) |-> QInt(1000 * (j - 2)) ],
                 !.grid_east = [ i \in 1..(MaxTopoEast + 1) |-> QInt(500 * (2 * i - 3)) ],
                 !.grid_z = grid_z,
                 !.nodes_north = [ j \in 1..MaxTopoNorth |-> QInt(1000) ],
                 !.nodes_east = [ i \in 1..MaxTopoEast |-> QInt(1000) ],
                 !.nodes_z = Widths(grid_z),
                 !.sea_level = IF sea_level_set THEN QInt(150)
                               ELSE grid_z[n_airlayers + 1],
                 !.res_model =
                     [ c \in (1..MaxTopoNorth) \X (1..MaxTopoEast)
                               \X (1..(n_airlayers + 2)) |-> Sci(1, 2) ],
                 !.surface_dict = surface_dict ]
    /\ data_file = << >>
    /\ rdata = NoObject
    /\ model_file = << >>
    /\ rmodel = NoObject
    /\ args = << >>

NextTopo == AddTopography

SpecTopo == InitTopo /\ [][NextTopo]_vars

\* the depth of the centre of cell c and of the surface in its column
CentreDepth(m, c) == GridCentres(m.grid_z)[c[3]]
SurfaceDepth(m, c) ==
    QSub(m.sea_level, Val(m.surface_dict)["topography"][<< c[1], c[2] >>])

\* C9: after add_topography, for every column [north j, east i] and cell
\* k: a cell centre below sea level and at or above the local surface has
\* the sea resistivity in res_model[j,i,k] and 9 in covariance_mask[j,i,k];
\* a cell centre above the local surface and above sea level has the air
\* resistivity and mask 0; every other cell has mask 1.
C9_CellsClassified ==
    (pc = "add_topography" /\ raised = "none") =>
        \A c \in DOMAIN model.res_model :
            LET gcz == CentreDepth(model, c)
                topo == SurfaceDepth(model, c)
            IN IF QLess(model.sea_level, gcz) /\ QLeq(gcz, topo)
               THEN /\ model.res_model[c] = args.sea_resistivity
                    /\ model.covariance_mask[c] = 9
               ELSE IF QLess(gcz, topo) /\ QLess(gcz, model.sea_level)
               THEN /\ model.res_model[c] = args.air_resistivity
                    /\ model.covariance_mask[c] = 0
               ELSE model.covariance_mask[c] = 1

\* C9, amended: the mask of the cell [j,i,k] is held at the mirrored north
\* index, covariance_mask[N-1-j,i,k] of N rows; it is 9, with the sea
\* resistivity in res_model[j,i,k], for a centre below sea level and at or
\* above the local surface; 0 for a centre at or above the local surface
\* and at or above sea level, with the air resistivity in res_model[j,i,k]
\* when the centre is strictly above both and the model has air layers;
\* and 1 for every other cell.
C9_CellsClassifiedNorthMirrored ==
    (pc = "add_topography" /\ raised = "none") =>
        \A c \in DOMAIN model.res_model :
            LET gcz == CentreDepth(model, c)
                topo == SurfaceDepth(model, c)
                mirrored == << NumNorth(model.res_model) + 1 - c[1], c[2], c[3] >>
            IN IF QLess(model.sea_level, gcz) /\ QLeq(gcz, topo)
               THEN /\ model.res_model[c] = args.sea_resistivity
                    /\ model.covariance_mask[mirrored] = 9
               ELSE IF QLeq(gcz, topo) /\ QLeq(gcz, model.sea_level)
               THEN /\ model.covariance_mask[mirrored] = 0
                    /\ (/\ QLess(gcz, topo)
                        /\ QLess(gcz, model.sea_level)
                        /\ model.n_airlayers > 0)
                         => model.res_model[c] = args.air_resistivity
               ELSE model.covariance_mask[mirrored] = 1

\* topography with a row under water and a row of land: a sea cell whose
\* mask sits in the other row, and an air cell
C9_Witness ==
    /\ pc = "add_topography"
    /\ raised = "none"
    /\ \E c \in DOMAIN model.res_model :
         /\ model.res_model[c] = args.sea_resistivity
         /\ model.covariance_mask[c] # 9
         /\ model.covariance_mask[<< NumNorth(model.res_model) + 1 - c[1],
                                     c[2], c[3] >>] = 9
    /\ \E c \in DOMAIN model.res_model :
         model.res_model[c] = args.air_resistivity

\* the cells of the column under station ss of Model m, from the top: the
\* ones tagged as sea, and the ones whose resistivity is below air
C26_Column(m, ss) ==
    LET sta == Val(m.station_locations)[ss] IN
    << SetMin(CellsHolding(sta.rel_north, m.grid_north)),
       SetMin(CellsHolding(sta.rel_east, m.grid_east)) >>
C26_Sea(m, ss) ==
    { k \in 1..(Len(m.grid_z) - 1) :
        ReverseNorth(m.covariance_mask)[<< C26_Column(m, ss)[1],
                                           C26_Column(m, ss)[2], k >>] = 9 }
C26_BelowAir(m, ss, air) ==
    { k \in 1..(Len(m.grid_z) - 1) :
        SciLess(m.res_model[<< C26_Column(m, ss)[1], C26_Column(m, ss)[2], k >>],
                air) }

\* C26: after add_topography every station's elevation is that of a cell
\* of the column beneath it: a cell tagged as sea if the column has one,
\* else the first cell from the top whose resistivity is below the
\* air_resistivity add_topography was given, else the top of the model; for
\* each air_resistivity.
C26_StationsPinnedToGround ==
    (pc = "add_topography" /\ raised = "none") =>
        \A ss \in 1..Len(Val(model.station_locations)) :
            LET elev == Val(model.station_locations)[ss].elev
                sea  == C26_Sea(model, ss)
                rock == C26_BelowAir(model, ss, args.air_resistivity)
                on(k) == QAdd(model.grid_z[k], QInt(1))
            IN IF sea # {} THEN \E k \in sea : elev = on(k)
               ELSE IF rock # {} THEN elev = on(SetMin(rock))
               ELSE elev = on(1)

\* the same when add_topography is given the air resistivity that
\* project_stations_on_topography takes by default, 1e17
C26_PinnedUnderDefaultAir ==
    (pc = "add_topography" /\ raised = "none"
     /\ args.air_resistivity = Sci(1, 17)) =>
        \A ss \in 1..Len(Val(model.station_locations)) :
            LET elev == Val(model.station_locations)[ss].elev
                sea  == C26_Sea(model, ss)
                rock == C26_BelowAir(model, ss, args.air_resistivity)
                on(k) == QAdd(model.grid_z[k], QInt(1))
            IN IF sea # {} THEN elev = on(SetMax(sea))
               ELSE IF rock # {} THEN elev = on(SetMin(rock))
               ELSE elev = on(1)

\* the highest elevation of the topography surface of Model m
C30_Highest(m) ==
    QSetMax({ Val(m.surface_dict)["topography"][p] :
                p \in DOMAIN Val(m.surface_dict)["topography"] })

\* the vertical grid of Model m after add_topography on Model m0
C30_Grid(m0, m) ==
    /\ StrictlyIncreasing(m.grid_z)
    /\ Len(m.grid_z) = Len(m0.grid_z)
    /\ m.nodes_z = Widths(m.grid_z)
    /\ m.sea_level = m.grid_z[m.n_airlayers + 1]
    /\ QLeq(C30_Highest(m), m.sea_level)

\* C30: after add_topography on a Model with n_airlayers > 0, grid_z is
\* strictly increasing with as many nodes as before, nodes_z holds its
\* successive differences and sea_level, the node grid_z[n_airlayers]
\* between air and ground, is at or above the highest elevation of the
\* surface; for every surface, one whose highest elevation is zero or below
\* zero included.
C30_GridKeptInOrder ==
    [][(pc = "new" /\ pc' = "add_topography" /\ raised' = "none"
        /\ model.n_airlayers > 0) => C30_Grid(model, model')]_vars

\* the same for the surfaces that rise above zero
C30_GridKeptInOrderAboveZero ==
    [][(pc = "new" /\ pc' = "add_topography" /\ raised' = "none"
        /\ model.n_airlayers > 0
        /\ QLess(QZero, C30_Highest(model'))) => C30_Grid(model, model')]_vars

-----------------------------------------------------------------------------
(***************************************************************************)
(* Station coordinates: Data.get_relative_station_locations with           *)
(* project_sites_pyproj and project_xy.                                    *)
(*                                                                         *)
(* pyproj lies outside these source files.  The Data object's entry pyproj *)
(* is None where importing it fails and otherwise holds what its transform *)
(* returns: the easting and northing of each row, and the longitude and    *)
(* latitude of the centre.  An angle of rotation is a whole number of      *)
(* quarter turns, whose sine and cosine are taken exactly.                 *)
(***************************************************************************)

\* lines 50-60: the zone of each known code
epsg_dict ==
    [ k \in { 28350, 28351, 28352, 28353, 28354, 28355, 28356, 3112, 4326 } |->
        IF k \in { 3112, 4326 } THEN 0 ELSE k - 28300 ]

\* the text of a zone number of two figures as a zone string: every
\* character but the last, and the last
ZoneText(n) ==
    << n \div 10, << "0", "1", "2", "3", "4", "5", "6", "7", "8", "9" >>[(n % 10) + 1] >>

\* lines 508-525
ProjectSitesPyproj(d) ==
    IF IsNone(d.pyproj) THEN [ data |-> d, exc |-> "ImportError" ]
    ELSE IF IsNone(d.epsg) \/ Val(d.epsg) \notin DOMAIN epsg_dict
    THEN [ data |-> [ d EXCEPT !.epsg = None ], exc |-> "none" ]
    ELSE [ data |->
             [ d EXCEPT !.data_array =
                 [ ii \in 1..Len(@) |->
                     IF ~QIsZero(@[ii].lat) /\ ~QIsZero(@[ii].lon)
                     THEN [ @[ii] EXCEPT
                              !.zone = ZoneText(epsg_dict[Val(d.epsg)]),
                              !.east = Val(d.pyproj).sites[ii][1],
                              !.north = Val(d.pyproj).sites[ii][2] ]
                     ELSE @[ii] ] ],
           exc |-> "none" ]

\* lines 527-544, project_xy(x, y): p1 and p2 are bound only under the test
\* of line 540
ProjectXY(d) ==
    IF IsNone(d.pyproj) THEN [ value |-> None, exc |-> "none" ]
    ELSE IF IsNone(d.epsg) THEN [ value |-> None, exc |-> "UnboundLocalError" ]
    ELSE IF Val(d.epsg) \notin DOMAIN epsg_dict
    THEN [ value |-> None, exc |-> "KeyError" ]
    ELSE [ value |-> Some(Val(d.pyproj).centre), exc |-> "none" ]

\* np.cos and np.sin of np.deg2rad(angle), angle a multiple of 90
CosDeg(angle) ==
    LET q == (angle[1] \div 90) % 4
    IN QInt(CASE q = 0 -> 1 [] q = 2 -> -1 [] OTHER -> 0)
SinDeg(angle) ==
    LET q == (angle[1] \div 90) % 4
    IN QInt(CASE q = 1 -> 1 [] q = 3 -> -1 [] OTHER -> 0)

\* lines 598-631: the centre, the relative coordinates and their rotation
CentreAndRotate(d) ==
    LET rows  == d.data_array
        easts  == { rows[ii].east : ii \in 1..Len(rows) }
        norths == { rows[ii].north : ii \in 1..Len(rows) }
        c_e == QDiv(QAdd(QSetMin(easts), QSetMax(easts)), QInt(2))
        c_n == QDiv(QAdd(QSetMin(norths), QSetMax(norths)), QInt(2))
        xy  == ProjectXY(d)
        d1  == [ d EXCEPT !.center_position_EN = Some(<< c_e, c_n >>) ]
        rel_e(ii) == QSub(rows[ii].east, c_e)
        rel_n(ii) == QSub(rows[ii].north, c_n)
        cos_ang == CosDeg(d.rotation_angle)
        sin_ang == SinDeg(d.rotation_angle)
    IN IF xy.exc # "none" THEN [ data |-> d1, exc |-> xy.exc ]    \* line 603
       ELSE [ data |->
                [ d1 EXCEPT
                    !.center_position = xy.value,
                    !.data_array =
                      [ ii \in 1..Len(rows) |->
                          IF QIsZero(d.rotation_angle)
                          THEN [ rows[ii] EXCEPT !.rel_east = rel_e(ii),
                                                 !.rel_north = rel_n(ii) ]
                          ELSE [ rows[ii] EXCEPT
                                   !.rel_east =
                                       QAdd(QMul(cos_ang, rel_e(ii)),
                                            QMul(sin_ang, rel_n(ii))),
                                   !.rel_north =
                                       QAdd(QMul(QNeg(sin_ang), rel_e(ii)),
                                            QMul(cos_ang, rel_n(ii))) ] ] ],
              exc |-> "none" ]

\* lines 577-596: the projection used
ProjectStations_Any(d, main_utm_zone) ==
    LET tried == IF IsNone(d.epsg) THEN [ data |-> d, exc |-> "none" ]
                 ELSE ProjectSitesPyproj(d)
        use_pyproj == /\ ~IsNone(d.epsg)
                      /\ tried.exc = "none"
                      /\ ~IsNone(tried.data.epsg)
    IN IF use_pyproj THEN tried
       ELSE ProjectSitesOutcome(tried.data, main_utm_zone)

\* get_relative_station_locations(), main_utm_zone being the zone line 456
\* of project_sites finds
GetRelativeStationLocationsOutcome(d, main_utm_zone) ==
    LET projected == ProjectStations_Any(d, main_utm_zone)
    IN IF projected.exc # "none" THEN projected
       ELSE CentreAndRotate(projected.data)

GetRelativeStationLocations ==
    /\ pc = "new"
    /\ data.class = "Data"
    /\ \E main_utm_zone \in MainZoneCandidates(ProjectRows(data)) :
         \E out \in { GetRelativeStationLocationsOutcome(data, main_utm_zone) } :
           /\ data' = out.data
           /\ raised' = out.exc
    /\ args' = << >>
    /\ pc' = "get_relative_station_locations"
    /\ UNCHANGED << data_file, rdata, model, model_file, rmodel >>

\* row ss of a filled data_array before any projection: the station's data
\* and no zone, easting or northing; a station not located has latitude 0
StationRow(ss, located) ==
    [ ff \in { "zone", "east", "north" } |-> IF ff = "zone" THEN << >> ELSE QZero ]
    @@ [ StationRecord(ss, "full", 0, "full", "small", "zero") EXCEPT
           !.lat = IF located THEN @ ELSE QZero ]

\* a Data object with a filled data_array; its stations lie in one zone or
\* in a zone each
InitStations ==
    /\ pc = "new"
    /\ raised = "none"
    /\ \E ns \in 1..MaxStations, zones_apart \in BOOLEAN, located \in BOOLEAN,
          epsg \in { None, Some(28355), Some(1) }, installed \in BOOLEAN,
          rotation_angle \in { QZero, QInt(90) } :
         data = [ FreshData EXCEPT
                    !.data_array = [ ss \in 1..ns |-> StationRow(ss, located \/ ss > 1) ],
                    !.period_list = PeriodSeconds,
                    !.epsg = epsg,
                    !.rotation_angle = rotation_angle ]
                @@ [ utm2ll |->
                       [ ss \in 1..ns |->
                           [ zone |-> << IF zones_apart THEN 53 + ss ELSE 54, "P" >>,
                             east |-> QInt(300000 + 1000 * ss),
                             north |-> QInt(1015000 + 500 * ss) ] ],
                     pyproj |->
                       IF installed
                       THEN Some([ sites |-> [ ss \in 1..ns |->
                                                 << QInt(300000 + 1000 * ss),
                                                    QInt(1015000 + 500 * ss) >> ],
                                   centre |-> << Q(1119, 8), Q(-485, 16) >> ])
                       ELSE None ]
    /\ data_file = << >>
    /\ rdata = NoObject
    /\ model = NoObject
    /\ model_file = << >>
    /\ rmodel = NoObject
    /\ args = << >>

NextStations == GetRelativeStationLocations \/ WriteDataFile

SpecStations == InitStations /\ [][NextStations]_vars

\* C13: with no EPSG code set, or with pyproj unavailable,
\* get_relative_station_locations returns without raising and leaves
\* center_position a pair of numbers, and a write_data_file that follows
\* returns without raising.
C13_BuiltInProjectionCompletes ==
    (IsNone(data.epsg) \/ IsNone(data.pyproj)) =>
        /\ pc = "get_relative_station_locations" =>
             /\ raised = "none"
             /\ ~IsNone(data.center_position)
        /\ pc = "write_data_file" => raised = "none"

-----------------------------------------------------------------------------
(***************************************************************************)
(* Rotation of the data: the property Data.rotation_angle, get_mt_dict,    *)
(* _fill_data_array and write_data_file with its arguments rotation_angle  *)
(* and fill.                                                               *)
(*                                                                         *)
(* mt_dict holds one MT object per station, in the order of the sorted     *)
(* station names; an MT object is a row of the shape of data_array, its    *)
(* impedance and tipper given at the periods of period_list.  The EDI      *)
(* files of edi_list hold the rows SourceRow.  Z.rotate and Tipper.rotate  *)
(* lie outside these source files: a tensor is turned with the matrix      *)
(* [[cos, sin], [-sin, cos]] and its errors with the absolute values of    *)
(* that matrix.  Angles are whole numbers of quarter turns.                *)
(***************************************************************************)

CAdd(a, b) == << QAdd(a[1], b[1]), QAdd(a[2], b[2]) >>
CScale(q, a) == << QMul(q, a[1]), QMul(q, a[2]) >>

\* entry [i, k] of the rotation matrix of an angle
RotMatrix(angle, i, k) ==
    CASE i = k -> CosDeg(angle)
      [] i = 0 /\ k = 1 -> SinDeg(angle)
      [] OTHER -> QNeg(SinDeg(angle))

\* Z.rotate(angle) on one tensor: R z R^T
RotateZ(z, angle) ==
    [ idx \in ZIndex |->
        LET term(k, l) == CScale(QMul(RotMatrix(angle, idx[1], k),
                                      RotMatrix(angle, idx[2], l)),
                                 z[<< k, l >>])
        IN CAdd(CAdd(term(0, 0), term(0, 1)), CAdd(term(1, 0), term(1, 1))) ]

\* Tipper.rotate(angle) on one tipper: t R^T
RotateTipper(tip, angle) ==
    [ idx \in TIndex |->
        CAdd(CScale(RotMatrix(angle, idx[2], 0), tip[<< 0, 0 >>]),
             CScale(RotMatrix(angle, idx[2], 1), tip[<< 0, 1 >>])) ]

\* the errors of a tensor and of a tipper after a quarter turn
RotateZErr(z_err, angle) ==
    [ idx \in ZIndex |->
        LET term(k, l) == QMul(QAbs(QMul(RotMatrix(angle, idx[1], k),
                                         RotMatrix(angle, idx[2], l))),
                               z_err[<< k, l >>])
        IN QAdd(QAdd(term(0, 0), term(0, 1)), QAdd(term(1, 0), term(1, 1))) ]
RotateTipperErr(tip_err, angle) ==
    [ idx \in TIndex |->
        QAdd(QMul(QAbs(RotMatrix(angle, idx[2], 0)), tip_err[<< 0, 0 >>]),
             QMul(QAbs(RotMatrix(angle, idx[2], 1)), tip_err[<< 0, 1 >>])) ]

\* lines 704-707: mt_obj.Z.rotate and mt_obj.Tipper.rotate at every period
RotateMT(mt_obj, angle) ==
    [ mt_obj EXCEPT
        !.z = [ ff \in DOMAIN @ |-> RotateZ(@[ff], angle) ],
        !.z_err = [ ff \in DOMAIN @ |-> RotateZErr(@[ff], angle) ],
        !.tip = [ ff \in DOMAIN @ |-> RotateTipper(@[ff], angle) ],
        !.tip_err = [ ff \in DOMAIN @ |-> RotateTipperErr(@[ff], angle) ] ]

\* the station of EDI file ss: an MT object holds the periods of the file
\* (1 / Z.freq, in the order of the file) and, slot by slot, what
\* interpolate returns for the periods of period_list; these files have the
\* periods of period_list
SourceRow(ss) == StationRow(ss, TRUE) @@ [ periods |-> PeriodSeconds ]

\* lines 400-416: get_mt_dict reads every file of edi_list anew
GetMtDictOutcome(d) ==
    [ d EXCEPT !.mt_dict = Some([ ss \in 1..d.edi_list |-> SourceRow(ss) ]) ]

\* lines 826-830: the period of the file nearest to iperiod, the first of
\* them in the file when two are as near
NearestDataPeriod(dperiods, iperiod) ==
    LET difference == [ kk \in 1..Len(dperiods) |->
                          QAbs(QSub(iperiod, dperiods[kk])) ]
        nearest == { kk \in 1..Len(dperiods) :
                       \A ll \in 1..Len(dperiods) :
                           QLeq(difference[kk], difference[ll]) }
    IN dperiods[SetMin(nearest)]

\* lines 817-833: period jj of period_list is one of interp_periods of the
\* MT object
InterpPeriod_All(d, mt_obj, jj) == TRUE
InterpPeriod(d, mt_obj, jj) ==
    LET iperiod == d.period_list[jj]
        nearestdperiod == NearestDataPeriod(mt_obj.periods, iperiod)
    IN /\ QLeq(QSetMin(Range(mt_obj.periods)), iperiod)
       /\ QLeq(iperiod, QSetMax(Range(mt_obj.periods)))
       /\ IsNone(d.period_buffer)
            \/ QLess(QMax(QDiv(nearestdperiod, iperiod),
                          QDiv(iperiod, nearestdperiod)),
                     Val(d.period_buffer))

\* lines 767-847: _fill_data_array with period_list set; the rows start as
\* zeros, take their place from the data_array there was (or from the MT
\* object when there was none) and, at the periods of interp_periods, their
\* data from the MT object
FillDataArray(d) ==
    LET mt == Val(d.mt_dict)
        nf == Len(d.period_list)
        place(ii) ==
            IF d.data_array # None THEN d.data_array[ii]
            ELSE [ name \in (DOMAIN mt[ii]) \ { "periods" } |->
                     IF name \in { "rel_east", "rel_north" } THEN QZero
                     ELSE mt[ii][name] ]
        slots(ii, name, zeros) ==
            [ jj \in 1..nf |-> IF InterpPeriod(d, mt[ii], jj)
                               THEN mt[ii][name][jj] ELSE zeros ]
    IN [ d EXCEPT !.data_array =
         [ ii \in 1..Len(mt) |->
             [ place(ii) EXCEPT
                 !.zone = << >>,
                 !.z = slots(ii, "z", ZCell("none")),
                 !.z_err = slots(ii, "z_err", ZErrCell("zero")),
                 !.tip = slots(ii, "tip", TCell("none")),
                 !.tip_err = slots(ii, "tip_err", TErrCell("zero")) ] ] ]

\* lines 683-718: _set_rotation_angle(rotation_angle)
SetRotationAngleOutcome(d, rotation_angle) ==
    LET new_rotation_angle == QSub(rotation_angle, d.rotation_angle) IN
    IF d.rotation_angle = rotation_angle THEN d
    ELSE IF QIsZero(new_rotation_angle) THEN d
    ELSE LET d1 == [ d EXCEPT !.rotation_angle = rotation_angle ] IN
         IF d.data_array = None THEN d1
         ELSE IF IsNone(d.mt_dict) THEN d1
         ELSE FillDataArray(
                [ d1 EXCEPT !.mt_dict =
                    Some([ ii \in 1..Len(Val(@)) |->
                             RotateMT(Val(@)[ii], new_rotation_angle) ]) ])

\* lines 933-953 of write_data_file(rotation_angle, fill): the object as it
\* stands when the header is written, and the exception raised before then
PrepareWrite(d, rotation_angle, fill) ==
    LET d1 == IF fill /\ IsNone(d.mt_dict) THEN GetMtDictOutcome(d) ELSE d
        d2 == IF IsNone(rotation_angle) THEN d1
              ELSE SetRotationAngleOutcome(d1, Val(rotation_angle))
    IN IF fill
       THEN GetRelativeStationLocationsOutcome(FillDataArray(d2), << >>)
       ELSE [ data |-> d2, exc |-> "none" ]

\* write_data_file(rotation_angle, compute_error, fill)
WriteRotatedOutcome(d, rotation_angle, compute_error, fill) ==
    LET prepared == PrepareWrite(d, rotation_angle, fill)
        hdr == [ prepared.data EXCEPT
                   !.header_strings = SetHeaderString(prepared.data) ]
    IN IF prepared.exc # "none"
       THEN [ data |-> prepared.data, lines |-> << >>, exc |-> prepared.exc ]
       ELSE IF prepared.data.data_array = None                    \* line 956
       THEN [ data |-> hdr, lines |-> << >>, exc |-> "TypeError" ]
       ELSE [ data |-> hdr ]
            @@ WriteDataOutcome(prepared.data, compute_error)

\* the number of EDI files
MaxEdiFiles == 1

\* the angles set
Angles == { QZero, QInt(90), QInt(180), QInt(270) }

\* md.rotation_angle = rotation_angle
SetRotationAngle ==
    /\ raised = "none"
    /\ \E rotation_angle \in Angles :
         /\ data' = SetRotationAngleOutcome(data, rotation_angle)
         /\ args' = [ rotation_angle |-> rotation_angle ]
    /\ pc' = "rotation_angle"
    /\ UNCHANGED << raised, data_file, rdata, model, model_file, rmodel >>

\* md.get_mt_dict()
GetMtDict ==
    /\ raised = "none"
    /\ data' = GetMtDictOutcome(data)
    /\ args' = << >>
    /\ pc' = "get_mt_dict"
    /\ UNCHANGED << raised, data_file, rdata, model, model_file, rmodel >>

\* md.write_data_file(rotation_angle=..., compute_error=..., fill=...)
WriteDataFileRotated ==
    /\ raised = "none"
    /\ \E rotation_angle \in { None } \cup { Some(a) : a \in Angles },
          compute_error \in BOOLEAN, fill \in BOOLEAN :
         \E out \in { WriteRotatedOutcome(data, rotation_angle,
                                          compute_error, fill) } :
           /\ data' = out.data
           /\ raised' = out.exc
           /\ data_file' = IF out.exc = "none" THEN out.lines ELSE data_file
           /\ args' = [ rotation_angle |-> rotation_angle,
                        compute_error |-> compute_error, fill |-> fill ]
    /\ pc' = "write_data_file"
    /\ UNCHANGED << rdata, model, model_file, rmodel >>

\* Data(edi_list, period_list=..., epsg=28355, rotation_angle=...) with
\* pyproj installed: line 304 keeps the keyword, and line 305 returns at
\* once
InitRotation ==
    /\ pc = "new"
    /\ raised = "none"
    /\ \E ns \in 1..MaxEdiFiles, rotation_angle \in Angles :
         data = [ FreshData EXCEPT
                    !.period_list = PeriodSeconds,
                    !.epsg = Some(28355),
                    !.rotation_angle = rotation_angle ]
                @@ [ edi_list |-> ns,
                     mt_dict |-> None,
                     utm2ll |-> << >>,
                     pyproj |->
                       Some([ sites |-> [ ss \in 1..ns |->
                                            << QInt(300000 + 1000 * ss),
                                               QInt(1015000 + 500 * ss) >> ],
                              centre |-> << Q(1119, 8), Q(-485, 16) >> ]) ]
    /\ data_file = << >>
    /\ rdata = NoObject
    /\ model = NoObject
    /\ model_file = << >>
    /\ rmodel = NoObject
    /\ args = << >>

NextRotation == SetRotationAngle \/ GetMtDict \/ WriteDataFileRotated

SpecRotation == InitRotation /\ [][NextRotation]_vars

\* the data_array of the state with the data of every station replaced by
\* the data of its EDI file turned by angle
C15_SourceRotated(angle) ==
    [ data EXCEPT !.data_array =
        [ ii \in 1..Len(@) |->
            LET turned == RotateMT(SourceRow(ii), angle) IN
            [ @[ii] EXCEPT !.z = turned.z, !.z_err = turned.z_err,
                           !.tip = turned.tip, !.tip_err = turned.tip_err ] ] ]

\* C15: after any sequence of rotation angles set (by the constructor, by
\* assignment to rotation_angle, by the argument of write_data_file) and of
\* loadings of the station data, the file write_data_file writes holds the
\* lines of the source data turned by the current rotation_angle, which is
\* the angle in the header of the file.
C15_WrittenDataTurnedByHeaderAngle ==
    (pc = "write_data_file" /\ raised = "none") =>
        /\ data_file[1].v[3] = FmtF(data.rotation_angle, 1)
        /\ data_file = WriteDataOutcome(C15_SourceRotated(data.rotation_angle),
                                        args.compute_error).lines

\* an object whose MT objects and data_array both hold the source data
\* turned by its rotation_angle
C15_InStep(d) ==
    /\ d.data_array # None
    /\ ~IsNone(d.mt_dict)
    /\ \A ii \in 1..Len(d.data_array) :
         LET turned == RotateMT(SourceRow(ii), d.rotation_angle) IN
         /\ Val(d.mt_dict)[ii] = turned
         /\ d.data_array[ii].z = turned.z
         /\ d.data_array[ii].tip = turned.tip

\* an assignment to rotation_angle on an object that is in step leaves it
\* in step
C15_AssignmentKeepsInStep ==
    [][(C15_InStep(data) /\ pc' = "rotation_angle") => C15_InStep(data')]_vars

(***************************************************************************)
(* Filling the data array: Data._fill_data_array with EDI files whose      *)
(* periods are not the periods of period_list.  MT.interpolate is not part *)
(* of the file modem.py; an MT object holds what it returns for each       *)
(* period of period_list.  Every file covers one period of period_list at  *)
(* the least.                                                              *)
(***************************************************************************)

\* the periods of an EDI file, in seconds: those of period_list, 1 s to
\* 2 s, 5 s to 20 s, and 1 s and 20 s with none between
FilePeriods ==
    { PeriodSeconds, << QInt(1), QInt(2) >>, << QInt(5), QInt(20) >>,
      << QInt(1), QInt(20) >> }

NextFilePeriods(periods) ==
    CASE periods = PeriodSeconds -> << QInt(1), QInt(2) >>
      [] periods = << QInt(1), QInt(2) >> -> << QInt(5), QInt(20) >>
      [] periods = << QInt(5), QInt(20) >> -> << QInt(1), QInt(20) >>
      [] OTHER -> PeriodSeconds

\* the MT object of EDI file ss
FileRow(ss, zkind, tkind, periods) ==
    LET sta == StationRecord(ss, zkind, 0, tkind, "small", "big") IN
    [ StationRow(ss, TRUE) EXCEPT
        !.z = sta.z, !.z_err = sta.z_err,
        !.tip = sta.tip, !.tip_err = sta.tip_err ]
    @@ [ periods |-> IF ss = 1 THEN periods ELSE NextFilePeriods(periods) ]

\* md._fill_data_array()
FillDataArrayFromFiles ==
    /\ raised = "none"
    /\ data' = FillDataArray(data)
    /\ args' = << >>
    /\ pc' = "_fill_data_array"
    /\ UNCHANGED << raised, data_file, rdata, model, model_file, rmodel >>

\* Data(edi_list, period_list=..., period_buffer=...) after get_mt_dict,
\* with and without a data_array filled before
InitFill ==
    /\ pc = "new"
    /\ raised = "none"
    /\ \E ns \in 1..MaxStations, zkind \in ZKinds, tkind \in TKinds,
          periods \in FilePeriods, period_buffer \in { None, Some(QInt(3)) },
          filled \in BOOLEAN :
         data = [ FreshData EXCEPT
                    !.period_list = PeriodSeconds,
                    !.period_buffer = period_buffer,
                    !.data_array =
                        IF filled
                        THEN [ ss \in 1..ns |-> StationRow(ss, TRUE) ]
                        ELSE None ]
                @@ [ edi_list |-> ns,
                     mt_dict |-> Some([ ss \in 1..ns |->
                                          FileRow(ss, zkind, tkind, periods) ]) ]
    /\ data_file = << >>
    /\ rdata = NoObject
    /\ model = NoObject
    /\ model_file = << >>
    /\ rmodel = NoObject
    /\ args = << >>

NextFill == FillDataArrayFromFiles

SpecFill == InitFill /\ [][NextFill]_vars

\* period jj of period_list lies outside the periods of the file of
\* station ii, or the period_buffer filter removes it
C27_NotCovered(ii, jj) ==
    LET iperiod == data.period_list[jj]
        dperiods == Val(data.mt_dict)[ii].periods
    IN \/ QLess(iperiod, QSetMin(Range(dperiods)))
       \/ QLess(QSetMax(Range(dperiods)), iperiod)
       \/ /\ ~IsNone(data.period_buffer)
          /\ \E kk \in 1..Len(dperiods) :
               /\ \A ll \in 1..Len(dperiods) :
                    QLeq(QAbs(QSub(iperiod, dperiods[kk])),
                         QAbs(QSub(iperiod, dperiods[ll])))
               /\ ~QLess(QMax(QDiv(dperiods[kk], iperiod),
                              QDiv(iperiod, dperiods[kk])),
                         Val(data.period_buffer))

\* every station has one slot per period of period_list in each array
C27_OneSlotPerPeriod ==
    \A ii \in 1..Len(data.data_array) :
        \A name \in { "z", "z_err", "tip", "tip_err" } :
            DOMAIN data.data_array[ii][name] = 1..Len(data.period_list)

\* C27: after _fill_data_array every station's z, z_err, tip and tip_err
\* have one slot per inversion period, and the slot of a period outside the
\* station's own periods, or removed by the period_buffer filter, holds zero
\* impedance and tipper together with a huge error (an error above zero, at
\* the least).
C27_NoDataHasHugeError ==
    (pc = "_fill_data_array") =>
        /\ C27_OneSlotPerPeriod
        /\ \A ii \in 1..Len(data.data_array), jj \in 1..Len(data.period_list) :
             C27_NotCovered(ii, jj) =>
                 /\ data.data_array[ii].z[jj] = ZCell("none")
                 /\ data.data_array[ii].tip[jj] = TCell("none")
                 /\ \A idx \in ZIndex :
                      QLess(QZero, data.data_array[ii].z_err[jj][idx])
                 /\ \A idx \in TIndex :
                      QLess(QZero, data.data_array[ii].tip_err[jj][idx])

\* C27, as the code has it: the slot of such a period holds zero impedance,
\* zero tipper and zero errors.
C27_NoDataIsAllZero ==
    (pc = "_fill_data_array") =>
        /\ C27_OneSlotPerPeriod
        /\ \A ii \in 1..Len(data.data_array), jj \in 1..Len(data.period_list) :
             C27_NotCovered(ii, jj) =>
                 /\ data.data_array[ii].z[jj] = ZCell("none")
                 /\ data.data_array[ii].tip[jj] = TCell("none")
                 /\ data.data_array[ii].z_err[jj] = ZErrCell("zero")
                 /\ data.data_array[ii].tip_err[jj] = TErrCell("zero")

\* a station filled at one period and left without data at another, one
\* outside its file's periods and one that the period_buffer filter removed
C27_Witness ==
    /\ pc = "_fill_data_array"
    /\ \E ii \in 1..Len(data.data_array) :
         /\ \E jj \in 1..Len(data.period_list) :
              /\ ~C27_NotCovered(ii, jj)
              /\ data.data_array[ii].z[jj] # ZCell("none")
         /\ \E jj \in 1..Len(data.period_list) :
              /\ C27_NotCovered(ii, jj)
              /\ Val(data.mt_dict)[ii].z[jj] # ZCell("none")
    /\ \E ii \in 1..Len(data.data_array), jj \in 1..Len(data.period_list) :
         /\ C27_NotCovered(ii, jj)
         /\ QLeq(QSetMin(Range(Val(data.mt_dict)[ii].periods)), data.period_list[jj])
         /\ QLeq(data.period_list[jj], QSetMax(Range(Val(data.mt_dict)[ii].periods)))

=============================================================================
